---- MODULE Spec2Model ----
(***************************************************************************)
(* EVMatch: vehicle/preference match scoring and recommendation ranking.   *)
(*                                                                         *)
(* Two scorers exist in the repository:                                    *)
(*   - calculateMatchScore / generateMatchReasons of backend/routes/quiz.js*)
(*     used by getVehicleRecommendations (POST /quiz/submit);              *)
(*   - vehicleSchema.methods.calculateMatchScore of the Vehicle model      *)
(*     (src/unnamed/part_002), used by GET /vehicles/:id and               *)
(*     GET /vehicles/recommendations/for-me.                               *)
(*                                                                         *)
(* Numbers.  JavaScript numbers are modelled as exact rationals: a score   *)
(* under computation is an integer count of 1/Unit, with Unit chosen so    *)
(* that every product of the scorers is a whole number of units.  IEEE     *)
(* rounding error of the double arithmetic (a sum that is x.5 exactly may  *)
(* be x.4999999999999999 as a double) is not modelled.                     *)
(*                                                                         *)
(* Absent values.  A JavaScript value that may be undefined/null is a      *)
(* sequence of length 0 (absent) or 1 (present).                           *)
(***************************************************************************)
EXTENDS Integers, Sequences, FiniteSets, TLC

VARIABLES
    \* ---- one scoring call (specification Spec) ----
    pc,               \* "start", "quizScored", "vehicleScored"
    argVehicle,       \* the vehicle argument (optional record)
    argPreferences,   \* the preferences argument (optional record)
    retScore,         \* what calculateMatchScore (quiz.js) returned or threw
    increments,       \* the five increments of its accumulator `score`
    retReasons,       \* what generateMatchReasons returned or threw
    retMatchScore,    \* what Vehicle.calculateMatchScore returned or threw
    matchIncrements,  \* the five increments of its accumulator, when all are numbers
    retLocal,         \* what the forEach callback of calculateRecommendationsLocal
                      \* (frontend/quiz.js) pushed for the vehicle
    \* ---- one recommendation request (specification SpecRank) ----
    route,            \* "none", "quiz" (getVehicleRecommendations) or "forMe"
                      \* (GET /vehicles/recommendations/for-me)
    outcome,          \* "none", "ok", "caught" (quiz: logged, [] returned),
                      \* "400", "500" (for-me: error response)
    rpc,              \* "idle", "awaiting" (Promise.all pending), "done"
    db,               \* the active Vehicle documents, in natural order
    reqPreferences,   \* the preferences argument (optional record)
    vehicles,         \* what Vehicle.find(filter).limit(maxVehicles) gave
    tasks,            \* per vehicle, the state of its map callback and its entry
    settled,          \* indices of the callbacks in the order they completed
    recommendations,  \* the returned list
    previous,         \* what an earlier call with the same arguments attached to
                      \* each vehicle (none before the second call)
    quizResult,       \* the quizResult POST /quiz/submit built from the list
    \* ---- process configuration read from the environment at start-up ----
    processEnv,       \* process.env: ADDITIONAL_MATCH_REASONS, already split
    quizConfig,       \* quizConfig.features and quizConfig.recommendations
    vehicleFeatures,  \* vehicleConfig.features of the Vehicle model
    vehicleLimits,    \* vehicleConfig.limits of backend/routes/vehicles.js
    \* ---- the email service (specification SpecEmail) ----
    emailConfig,      \* emailConfig.features.enableFallbackProvider and
                      \* emailConfig.providers.primary / .fallback
    primaryAtStart,   \* emailConfig.providers.primary before the first call
    calls,            \* per sendWithFallback call: where it is, the provider its
                      \* primaryTransporter was built from, its originalProvider
    \* ---- favourites (specification SpecFavorites) ----
    initialFavorites, \* vehicleConfig.defaults.initialFavorites
    dbFavorites,      \* stored metadata.favorites of each vehicle
    dbUsers,          \* stored favoriteVehicles, stats.favoritesCount and __v of
                      \* each user
    requests,         \* per request: method, user, vehicle id, position, the
                      \* documents it loaded, the status it answered
    overlapped,       \* whether a request has started while another was in flight
    \* ---- OTP verification (specification SpecOtp) ----
    now,              \* Date.now(), in minutes
    dbUser,           \* the stored user: otp, otpExpires, isOtpVerified,
                      \* isEmailVerified, emailVerifiedAt
    otpRequests,      \* per request: route, position, the user document it
                      \* loaded, the status it answered
    lastVerify,       \* the last verifyOTP call: candidate, result, the document
                      \* before and after, and whether a call had returned true
                      \* since the last generateOTP
    verifiedSinceGenerate, \* whether verifyOTP has returned true since the last
                      \* generateOTP
    \* ---- view history (specification SpecViewHistory) ----
    userLimits,       \* userConfig.limits (viewHistory)
    viewer,           \* a user document: viewHistory and stats.viewedCount
    lastViewed,       \* the vehicle of the last addToViewHistory call, if any
    \* ---- the quiz page (specification SpecQuizPage) ----
    quizData,         \* quizData.questions of frontend/quiz.js (their ids)
    currentQuestion,  \* index of the question shown
    timers,           \* pending auto-advance timers of selectSingleOption
    lastEvent         \* the last navigation event: its name, the index before
                      \* and after, whether it called finishQuiz

None == <<>>
Some(x) == <<x>>

(***************************************************************************)
(* quizConfig (backend/routes/quiz.js), at its defaults.                   *)
(***************************************************************************)
budgetWeight == 30
typeWeight == 25
rangeWeight == 20
techWeight == 15
ecoWeight == 10
rangeBaseline == 300
\* budgetFlexibility 1.2 and overBudgetTolerance 1.1, in percent
budgetFlexibilityPct == 120
overBudgetTolerancePct == 110
excellentRange == 300
advancedTech == 90
ecoFriendly == 90
fastCharging == 150

\* quizConfig.mappings.similarTypes; a vehicleType without an entry has none
similarTypes(vehicleType) ==
    CASE vehicleType = "sedan" -> <<"hatchback">>
      [] vehicleType = "suv" -> <<"wagon">>
      [] vehicleType = "hatchback" -> <<"sedan">>
      [] vehicleType = "wagon" -> <<"suv">>
      [] OTHER -> <<>>

\* Array.prototype.includes
includes(array, x) == \E i \in 1..Len(array) : array[i] = x

(***************************************************************************)
(* vehicleConfig.matchScoring and validation.scores.max of the Vehicle      *)
(* model (src/unnamed/part_002), at their defaults.                        *)
(***************************************************************************)
vBudgetWeight == 30
vTypeWeight == 25
vRangeWeight == 20
vTechWeight == 15
vEcoWeight == 10
rangeBaselineEpa == 300
scoresMax == 100

(***************************************************************************)
(* Exact arithmetic: a number x is held as the integer x * Unit.           *)
(***************************************************************************)
Unit == 1000 * rangeBaseline

\* Math.round: nearest integer, halves towards +Infinity
MathRoundHalfDown(x) == (2 * x + Unit - 1) \div (2 * Unit)
MathRound(x) == (2 * x + Unit) \div (2 * Unit)

\* Math.min
MathMin(a, b) == IF a <= b THEN a ELSE b

\* Math.max
MathMax(a, b) == IF a >= b THEN a ELSE b

(***************************************************************************)
(* Results of a call.                                                      *)
(***************************************************************************)
NotCalled == [kind |-> "notCalled"]
Return(v) == [kind |-> "return", value |-> v]
ReturnNaN == [kind |-> "NaN"]
Throw(e) == [kind |-> "throw", error |-> e]

\* A JavaScript number that may be NaN
Num(v) == [nan |-> FALSE, value |-> v]
NaN == [nan |-> TRUE, value |-> 0]
Minus(x, y) == IF x.nan \/ y.nan THEN NaN ELSE Num(x.value - y.value)

\* JavaScript truthiness of an optional number: undefined and 0 are falsy
Truthy(n) == n # None /\ n[1] # 0

(***************************************************************************)
(* calculateMatchScore of backend/routes/quiz.js, one operator for each    *)
(* `score +=` of the function.  vehicle and preferences are the records    *)
(* themselves (not optional) here.                                         *)
(***************************************************************************)
effectivePrice(vehicle) ==
    vehicle.price.msrp -
      (vehicle.price.incentives.federal + vehicle.price.incentives.state
         + vehicle.price.incentives.local)

budgetScore(vehicle, preferences) ==
    IF preferences.budget # None
    THEN LET budget == preferences.budget[1]
         IN IF effectivePrice(vehicle) >= budget.min /\ effectivePrice(vehicle) <= budget.max
            THEN budgetWeight * Unit
            ELSE IF effectivePrice(vehicle) < budget.min
            THEN budgetWeight * 67 * (Unit \div 100)
            ELSE IF effectivePrice(vehicle) * 100 <= budget.max * overBudgetTolerancePct
            THEN budgetWeight * 50 * (Unit \div 100)
            ELSE 0
    ELSE 0

typeScore(vehicle, preferences) ==
    IF Some(vehicle.bodyType) = preferences.vehicleType
    THEN typeWeight * Unit
    ELSE IF preferences.vehicleType # None
            /\ includes(similarTypes(preferences.vehicleType[1]), vehicle.bodyType)
    THEN typeWeight * 6 * (Unit \div 10)
    ELSE 0

rangeScoreFoldedAtCap(vehicle, preferences) ==
    IF Truthy(preferences.rangeImportance)
    THEN LET raw == (vehicle.specifications.range.epa * preferences.rangeImportance[1]
                       * rangeWeight) * (Unit \div (rangeBaseline * 10))
         IN IF raw > rangeWeight * Unit THEN 2 * rangeWeight * Unit - raw ELSE raw
    ELSE 0

rangeScoreUncapped(vehicle, preferences) ==
    IF Truthy(preferences.rangeImportance)
    THEN (vehicle.specifications.range.epa * preferences.rangeImportance[1] * rangeWeight)
            * (Unit \div (rangeBaseline * 10))
    ELSE 0

rangeScore(vehicle, preferences) ==
    IF Truthy(preferences.rangeImportance)
    THEN MathMin(
           (vehicle.specifications.range.epa * preferences.rangeImportance[1] * rangeWeight)
              * (Unit \div (rangeBaseline * 10)),
           rangeWeight * Unit)
    ELSE 0

techScoreCapped(vehicle, preferences) ==
    IF Truthy(preferences.techImportance)
    THEN MathMin(
           (vehicle.techScore * preferences.techImportance[1] * techWeight)
              * (Unit \div (100 * 10)),
           techWeight * Unit)
    ELSE 0

techScore(vehicle, preferences) ==
    IF Truthy(preferences.techImportance)
    THEN (vehicle.techScore * preferences.techImportance[1] * techWeight)
            * (Unit \div (100 * 10))
    ELSE 0

ecoScoreInverted(vehicle) == ((100 - vehicle.ecoScore) * ecoWeight) * (Unit \div 100)
ecoScore(vehicle) == (vehicle.ecoScore * ecoWeight) * (Unit \div 100)

\* the accumulator `score` just before `return Math.round(score)`
scoreSum(vehicle, preferences) ==
    budgetScore(vehicle, preferences) + typeScore(vehicle, preferences)
      + rangeScore(vehicle, preferences) + techScore(vehicle, preferences)
      + ecoScore(vehicle)

\* vehicle, preferences: optional records.  `preferences.budget` is the first
\* property access; a null vehicle is first dereferenced at vehicle.price
\* (budget present) or vehicle.bodyType (budget absent).
calculateMatchScore(vehicle, preferences) ==
    IF preferences = None THEN Throw("TypeError")
    ELSE IF vehicle = None THEN Throw("TypeError")
    ELSE Return(MathRound(scoreSum(vehicle[1], preferences[1])))

(***************************************************************************)
(* generateMatchReasons of backend/routes/quiz.js.                         *)
(***************************************************************************)
When(cond, reason) == IF cond THEN <<reason>> ELSE <<>>

\* eval(`vehicle.${condition}`) for the conditions the model configures; any
\* other text throws inside eval, is logged and adds nothing
EvalVehicle(vehicle, condition) ==
    CASE condition = "specifications.range.epa >= 400" ->
            vehicle.specifications.range.epa >= 400
      [] condition = "ecoScore" -> vehicle.ecoScore # 0
      [] OTHER -> FALSE

RECURSIVE additionalReasons(_, _)
additionalReasons(vehicle, entries) ==
    IF entries = <<>> THEN <<>>
    ELSE When(EvalVehicle(vehicle, Head(entries).condition), Head(entries).reasonText)
           \o additionalReasons(vehicle, Tail(entries))

budgetReasonsInclusiveMin(vehicle, preferences) ==
    IF preferences.budget # None
    THEN When(effectivePrice(vehicle) <= preferences.budget[1].max, "Within budget")
           \o When(effectivePrice(vehicle) <= preferences.budget[1].min, "Great value")
    ELSE <<>>

budgetReasons(vehicle, preferences) ==
    IF preferences.budget # None
    THEN When(effectivePrice(vehicle) <= preferences.budget[1].max, "Within budget")
           \o When(effectivePrice(vehicle) < preferences.budget[1].min, "Great value")
    ELSE <<>>

fastChargingReasonStrict(vehicle, preferences) ==
    IF preferences.chargingFeatures # None
         /\ includes(preferences.chargingFeatures[1], "fast-charging")
    THEN When(vehicle.specifications.charging.dc_max_kw > fastCharging, "Fast charging")
    ELSE <<>>

fastChargingReason(vehicle, preferences) ==
    IF preferences.chargingFeatures # None
         /\ includes(preferences.chargingFeatures[1], "fast-charging")
    THEN When(vehicle.specifications.charging.dc_max_kw >= fastCharging, "Fast charging")
    ELSE <<>>

\* the body of generateMatchReasons, with the process environment it reads
\* (process.env.ADDITIONAL_MATCH_REASONS, quiz.js 380) made explicit
reasonsUnder(env, vehicle, preferences) ==
    budgetReasons(vehicle, preferences)
      \o When(Some(vehicle.bodyType) = preferences.vehicleType, "Perfect size match")
      \o When(vehicle.specifications.range.epa > excellentRange, "Excellent range")
      \o When(vehicle.techScore > advancedTech, "Advanced technology")
      \o When(vehicle.ecoScore > ecoFriendly, "Eco-friendly")
      \o fastChargingReason(vehicle, preferences)
      \o additionalReasons(vehicle, env.ADDITIONAL_MATCH_REASONS)

\* the function has no environment parameter: it reads the process's own
reasonsOf(vehicle, preferences) == reasonsUnder(processEnv, vehicle, preferences)

generateMatchReasons(vehicle, preferences) ==
    IF preferences = None THEN Throw("TypeError")
    ELSE IF vehicle = None THEN Throw("TypeError")
    ELSE Return(reasonsOf(vehicle[1], preferences[1]))

(***************************************************************************)
(* The Vehicle model: the effectivePrice virtual and the calculateMatchScore*)
(* method (src/unnamed/part_002).  `this` is always a vehicle document.    *)
(***************************************************************************)
Vehicle_effectivePrice(this) ==
    MathMax(0, this.price.msrp -
                 (this.price.incentives.federal + this.price.incentives.state
                    + this.price.incentives.local))

Vehicle_budgetScore(this, userPreferences) ==
    LET budget == userPreferences.budget[1]
    IN IF Vehicle_effectivePrice(this) >= budget.min
            /\ Vehicle_effectivePrice(this) <= budget.max
       THEN vBudgetWeight * Unit
       ELSE IF Vehicle_effectivePrice(this) < budget.min
       THEN vBudgetWeight * 67 * (Unit \div 100)
       ELSE 0

Vehicle_typeScore(this, userPreferences) ==
    IF Some(this.bodyType) = userPreferences.vehicleType
    THEN vTypeWeight * Unit
    ELSE 0

Vehicle_rangeScore(this, userPreferences) ==
    MathMin(
      (this.specifications.range.epa * userPreferences.rangeImportance[1] * vRangeWeight)
         * (Unit \div (rangeBaselineEpa * 10)),
      vRangeWeight * Unit)

Vehicle_techScore(this, userPreferences) ==
    (this.techScore * userPreferences.techImportance[1] * vTechWeight)
       * (Unit \div (scoresMax * 10))

Vehicle_ecoScore(this) == (this.ecoScore * vEcoWeight) * (Unit \div scoresMax)

\* userPreferences.budget.min throws on null preferences and on an absent
\* budget; an undefined rangeImportance or techImportance makes the product,
\* Math.min, the sum and Math.round all NaN
Vehicle_calculateMatchScore(this, userPreferences) ==
    IF ~vehicleFeatures.enableMatchScoring THEN Return(0)
    ELSE IF userPreferences = None THEN Throw("TypeError")
    ELSE IF userPreferences[1].budget = None THEN Throw("TypeError")
    ELSE IF userPreferences[1].rangeImportance = None
              \/ userPreferences[1].techImportance = None
    THEN ReturnNaN
    ELSE Return(MathRound(
           Vehicle_budgetScore(this, userPreferences[1])
             + Vehicle_typeScore(this, userPreferences[1])
             + Vehicle_rangeScore(this, userPreferences[1])
             + Vehicle_techScore(this, userPreferences[1])
             + Vehicle_ecoScore(this)))

(***************************************************************************)
(* calculateRecommendationsLocal of frontend/quiz.js, the fallback scorer  *)
(* of the quiz page: the body of its forEach callback.  ev is a record of  *)
(* quizData.evDatabase; answers are given as the preferences they encode   *)
(* (answers[3] budget, [2] vehicle type, [4] and [8] importances, [6]      *)
(* charging features).                                                     *)
(***************************************************************************)
\* getBudgetRange(answers[3])
getBudgetRange(preferences) ==
    IF preferences.budget # None THEN preferences.budget[1]
    ELSE [min |-> 0, max |-> 1000000]

\* answers[k] || 5
OrFive(n) == IF Truthy(n) THEN n[1] ELSE 5

local_budgetScore(ev, preferences) ==
    LET budget == getBudgetRange(preferences)
    IN IF ev.price >= budget.min /\ ev.price <= budget.max THEN 30 * Unit
       ELSE IF ev.price < budget.min THEN 20 * Unit
       ELSE 0

local_budgetReasons(ev, preferences) ==
    LET budget == getBudgetRange(preferences)
    IN IF ev.price >= budget.min /\ ev.price <= budget.max THEN <<"Within budget">>
       ELSE IF ev.price < budget.min THEN <<"Great value">>
       ELSE <<>>

local_fastCharging(ev, preferences) ==
    /\ preferences.chargingFeatures # None
    /\ includes(preferences.chargingFeatures[1], "fast-charging")
    /\ ev.charging = "fast-charging"

local_scoreSum(ev, preferences) ==
    local_budgetScore(ev, preferences)
      + (IF Some(ev.type) = preferences.vehicleType THEN 25 * Unit ELSE 0)
      + MathMin((ev.range * OrFive(preferences.rangeImportance) * 2) * (Unit \div 300),
                20 * Unit)
      + (ev.tech_score * OrFive(preferences.techImportance) * 2) * (Unit \div 100)
      + (ev.eco_score * 10) * (Unit \div 100)
      + (IF local_fastCharging(ev, preferences) THEN 10 * Unit ELSE 0)

local_matchReasons(ev, preferences) ==
    local_budgetReasons(ev, preferences)
      \o When(Some(ev.type) = preferences.vehicleType, "Perfect size match")
      \o When(ev.range > 300, "Excellent range")
      \o When(ev.tech_score > 90, "Advanced technology")
      \o When(ev.eco_score > 90, "Eco-friendly")
      \o When(local_fastCharging(ev, preferences), "Fast charging")

\* what is pushed for one ev
localRecommendation(ev, preferences) ==
    [score |-> MathRound(local_scoreSum(ev, preferences)),
     matchReasons |-> local_matchReasons(ev, preferences)]

(***************************************************************************)
(* Inputs of the scoring calls.                                            *)
(***************************************************************************)
VehicleDoc(id, bodyType, price, epa, tech, eco, dc) ==
    [_id |-> id,
     isActive |-> TRUE,
     bodyType |-> bodyType,
     price |-> price,
     specifications |-> [range |-> [epa |-> epa], charging |-> [dc_max_kw |-> dc]],
     techScore |-> tech,
     ecoScore |-> eco]

Price(msrp, federal, state, local) ==
    [msrp |-> msrp, incentives |-> [federal |-> federal, state |-> state, local |-> local]]

\* effective prices -2500, 25000, 30000, 45000, 50000, 52500, 55000, 55001
\* the quiz data record of a vehicle: its price is the price after incentives,
\* its charging tag says whether it charges at the fast-charging threshold
Ev(vehicle) ==
    [price |-> effectivePrice(vehicle),
     type |-> vehicle.bodyType,
     range |-> vehicle.specifications.range.epa,
     tech_score |-> vehicle.techScore,
     eco_score |-> vehicle.ecoScore,
     charging |-> IF vehicle.specifications.charging.dc_max_kw >= fastCharging
                  THEN "fast-charging" ELSE "standard"]

PriceValues ==
    { Price(5000, 7500, 0, 0), Price(25000, 0, 0, 0), Price(37500, 7500, 0, 0),
      Price(52500, 5000, 2000, 500), Price(57500, 7500, 0, 0), Price(52500, 0, 0, 0),
      Price(55000, 0, 0, 0), Price(62501, 7500, 0, 0) }
BodyTypeValues == {"sedan", "hatchback", "suv"}
EpaValues == {150, 300, 400}
TechScoreValues == {90, 100}
EcoScoreValues == {45, 90, 100}
DcMaxKwValues == {100, 150}

VehicleValues ==
    { VehicleDoc("v", b, p, e, t, c, d) :
        b \in BodyTypeValues, p \in PriceValues, e \in EpaValues,
        t \in TechScoreValues, c \in EcoScoreValues, d \in DcMaxKwValues }

\* quizConfig.mappings.budget entries "30k-50k" and "under-30k", or no budget
BudgetValues == {None, Some([min |-> 30000, max |-> 50000]), Some([min |-> 0, max |-> 30000])}
VehicleTypeValues == {Some("sedan"), Some("truck")}
RangeImportanceValues == {None, Some(5), Some(10)}
TechImportanceValues == {None, Some(7), Some(10), Some(12)}
ChargingFeaturesValues == {None, Some(<<"fast-charging">>)}

PreferencesValues ==
    { [budget |-> b, vehicleType |-> t, rangeImportance |-> r, techImportance |-> i,
       chargingFeatures |-> c] :
        b \in BudgetValues, t \in VehicleTypeValues, r \in RangeImportanceValues,
        i \in TechImportanceValues, c \in ChargingFeaturesValues }

\* ADDITIONAL_MATCH_REASONS unset, or "specifications.range.epa >= 400:Long range"
ProcessEnvValues ==
    { [ADDITIONAL_MATCH_REASONS |-> <<>>],
      [ADDITIONAL_MATCH_REASONS |->
         << [condition |-> "specifications.range.epa >= 400", reasonText |-> "Long range"] >>] }

NoIncrements == [budget |-> 0, type |-> 0, range |-> 0, tech |-> 0, eco |-> 0]

scoreVars == <<pc, argVehicle, argPreferences, retScore, increments, retReasons,
               retMatchScore, matchIncrements, retLocal>>
rankVars == <<route, outcome, rpc, db, reqPreferences, vehicles, tasks, settled,
              recommendations, previous, quizResult>>
configVars == <<processEnv, quizConfig, vehicleFeatures, vehicleLimits>>
emailVars == <<emailConfig, primaryAtStart, calls>>
\* the state of the other services of the application
favVars == <<initialFavorites, dbFavorites, dbUsers, requests, overlapped>>
otpVars == <<now, dbUser, otpRequests, lastVerify, verifiedSinceGenerate>>
viewVars == <<userLimits, viewer, lastViewed>>
pageVars == <<quizData, currentQuestion, timers, lastEvent>>
appVars == <<emailVars, favVars, otpVars, viewVars, pageVars>>
vars == <<scoreVars, rankVars, configVars, appVars>>

\* quizConfig.features and quizConfig.recommendations at their defaults
DefaultQuizConfig ==
    [features |-> [enableExternalScoringAPI |-> FALSE, enableMLRecommendations |-> FALSE],
     recommendations |-> [maxVehicles |-> 20, topRecommendations |-> 5]]

\* vehicleConfig.limits at its defaults
DefaultVehicleLimits == [recommendationVehicles |-> 10, topRecommendations |-> 5]

\* bounds of the email service
MaxCalls == 2
Calls == 1..MaxCalls

\* a sendWithFallback call that has not started
IdleCall == [pc |-> "idle", primaryTransporter |-> None, originalProvider |-> None]

\* the email service at its defaults (PRIMARY_EMAIL_PROVIDER unset: 'smtp', no
\* fallback provider), no call made
EmailIdle ==
    /\ emailConfig = [features |-> [enableFallbackProvider |-> FALSE],
                      providers |-> [primary |-> "smtp", fallback |-> None]]
    /\ primaryAtStart = "smtp"
    /\ calls = [c \in Calls |-> IdleCall]

\* bounds of the favourites routes
MaxRequests == 2
Requests == 1..MaxRequests
UserIds == {"u1", "u2"}
FavoriteVehicleIds == {"V1", "V2"}

\* a request that has not arrived
IdleRequest ==
    [pc |-> "idle", method |-> "none", userId |-> "none", vehicleId |-> "none",
     user |-> None, vehicle |-> None, status |-> 0]

\* a user without favourites
NewUser == [favoriteVehicles |-> <<>>, stats |-> [favoritesCount |-> 0], __v |-> 0]

FavIdle ==
    /\ initialFavorites = 0
    /\ dbFavorites = [id \in FavoriteVehicleIds |-> 0]
    /\ dbUsers = [u \in UserIds |-> NewUser]
    /\ requests = [r \in Requests |-> IdleRequest]
    /\ overlapped = FALSE

\* bounds of the OTP routes
MaxOtpRequests == 2
OtpRequests == 1..MaxOtpRequests

IdleOtpRequest == [pc |-> "idle", route |-> "none", user |-> None, status |-> 0]

\* a user as User.create leaves it (enableEmailVerification on)
UnverifiedUser ==
    [otp |-> None, otpExpires |-> None, isOtpVerified |-> FALSE,
     isEmailVerified |-> FALSE, emailVerifiedAt |-> None]

OtpIdle ==
    /\ now = 0
    /\ dbUser = UnverifiedUser
    /\ otpRequests = [r \in OtpRequests |-> IdleOtpRequest]
    /\ lastVerify = None
    /\ verifiedSinceGenerate = FALSE

\* userConfig.limits at its defaults
DefaultUserLimits == [viewHistory |-> 50]

\* a user who has viewed nothing
NewViewer == [viewHistory |-> <<>>, stats |-> [viewedCount |-> 0]]

ViewIdle ==
    /\ userLimits = DefaultUserLimits
    /\ viewer = NewViewer
    /\ lastViewed = None

\* the quiz page as its script leaves it before the quiz data is loaded
PageIdle ==
    /\ quizData = [questions |-> <<>>]
    /\ currentQuestion = 0
    /\ timers = 0
    /\ lastEvent = None

AppIdle == EmailIdle /\ FavIdle /\ OtpIdle /\ ViewIdle /\ PageIdle

RankIdle ==
    /\ route = "none"
    /\ outcome = "none"
    /\ rpc = "idle"
    /\ db = <<>>
    /\ reqPreferences = None
    /\ vehicles = <<>>
    /\ tasks = <<>>
    /\ settled = <<>>
    /\ recommendations = <<>>
    /\ previous = None
    /\ quizResult = None

Init ==
    /\ pc = "start"
    /\ argVehicle \in {None} \cup { Some(v) : v \in VehicleValues }
    /\ argPreferences \in {None} \cup { Some(p) : p \in PreferencesValues }
    /\ retScore = NotCalled
    /\ increments = NoIncrements
    /\ retReasons = NotCalled
    /\ retMatchScore = NotCalled
    /\ matchIncrements = NoIncrements
    /\ retLocal = NotCalled
    /\ processEnv \in ProcessEnvValues
    /\ quizConfig = DefaultQuizConfig
    /\ vehicleFeatures \in { [enableMatchScoring |-> b] : b \in BOOLEAN }
    /\ vehicleLimits = DefaultVehicleLimits
    /\ RankIdle
    /\ AppIdle

\* the two calls of the map callback of getVehicleRecommendations (quiz.js
\* 244-245) on the chosen arguments
QuizScoreCall ==
    /\ pc = "start"
    /\ pc' = "quizScored"
    /\ retScore' = calculateMatchScore(argVehicle, argPreferences)
    /\ increments' =
         IF argVehicle = None \/ argPreferences = None THEN NoIncrements
         ELSE [budget |-> budgetScore(argVehicle[1], argPreferences[1]),
               type |-> typeScore(argVehicle[1], argPreferences[1]),
               range |-> rangeScore(argVehicle[1], argPreferences[1]),
               tech |-> techScore(argVehicle[1], argPreferences[1]),
               eco |-> ecoScore(argVehicle[1])]
    /\ retReasons' = generateMatchReasons(argVehicle, argPreferences)
    /\ UNCHANGED <<argVehicle, argPreferences, retMatchScore, matchIncrements, retLocal,
                   configVars, rankVars, appVars>>

\* vehicle.calculateMatchScore(user.preferences) (vehicles.js 391, 561)
VehicleScoreCall ==
    /\ pc = "start"
    /\ argVehicle # None
    /\ pc' = "vehicleScored"
    /\ retMatchScore' = Vehicle_calculateMatchScore(argVehicle[1], argPreferences)
    /\ matchIncrements' =
         IF Vehicle_calculateMatchScore(argVehicle[1], argPreferences).kind = "return"
              /\ vehicleFeatures.enableMatchScoring
         THEN [budget |-> Vehicle_budgetScore(argVehicle[1], argPreferences[1]),
               type |-> Vehicle_typeScore(argVehicle[1], argPreferences[1]),
               range |-> Vehicle_rangeScore(argVehicle[1], argPreferences[1]),
               tech |-> Vehicle_techScore(argVehicle[1], argPreferences[1]),
               eco |-> Vehicle_ecoScore(argVehicle[1])]
         ELSE NoIncrements
    /\ UNCHANGED <<argVehicle, argPreferences, retScore, increments, retReasons, retLocal,
                   configVars, rankVars, appVars>>

\* the forEach callback of calculateRecommendationsLocal on the quiz data
\* record of the vehicle and the answers the preferences come from
LocalScoreCall ==
    /\ pc = "start"
    /\ argVehicle # None
    /\ argPreferences # None
    /\ pc' = "localScored"
    /\ retLocal' = Return(localRecommendation(Ev(argVehicle[1]), argPreferences[1]))
    /\ UNCHANGED <<argVehicle, argPreferences, retScore, increments, retReasons,
                   retMatchScore, matchIncrements, configVars, rankVars, appVars>>

Next == QuizScoreCall \/ VehicleScoreCall \/ LocalScoreCall

Spec == Init /\ [][Next]_vars

(***************************************************************************)
(* getVehicleRecommendations of backend/routes/quiz.js.                    *)
(***************************************************************************)
MaxDb == 3

\* under RankPreferencesA the first three score 70, 85 and 85
VehicleA == VehicleDoc("A", "hatchback", Price(45000, 0, 0, 0), 300, 0, 50, 150)
VehicleB == VehicleDoc("B", "sedan", Price(52500, 5000, 2000, 500), 300, 0, 100, 150)
VehicleC == VehicleDoc("C", "sedan", Price(40000, 0, 0, 0), 400, 40, 40, 100)
VehicleD == VehicleDoc("D", "suv", Price(45000, 0, 0, 0), 300, 90, 90, 150)
VehiclePool == {VehicleA, VehicleB, VehicleC, VehicleD}
VehicleIds == { v._id : v \in VehiclePool }

\* the collection: any documents of the pool, each at most once, in any order
DbValues ==
    { d \in UNION { [1..n -> VehiclePool] : n \in 0..MaxDb } :
        \A i, j \in DOMAIN d : i # j => d[i] # d[j] }

RankPreferencesA ==
    [budget |-> Some([min |-> 30000, max |-> 50000]), vehicleType |-> Some("sedan"),
     rangeImportance |-> Some(10), techImportance |-> Some(10),
     chargingFeatures |-> Some(<<"fast-charging">>)]
RankPreferencesB ==
    [budget |-> None, vehicleType |-> Some("hatchback"),
     rangeImportance |-> None, techImportance |-> Some(5), chargingFeatures |-> None]
\* the for-me route: user.preferences with a budget but no rangeImportance
RankPreferencesC ==
    [budget |-> Some([min |-> 30000, max |-> 50000]), vehicleType |-> Some("sedan"),
     rangeImportance |-> None, techImportance |-> Some(10), chargingFeatures |-> None]

RankPreferencesValues ==
    {None, Some(RankPreferencesA), Some(RankPreferencesB), Some(RankPreferencesC)}

QuizConfigValues ==
    { [features |-> [enableExternalScoringAPI |-> e, enableMLRecommendations |-> m],
       recommendations |-> [maxVehicles |-> v, topRecommendations |-> t]] :
        e \in BOOLEAN, m \in BOOLEAN, v \in {2, 20}, t \in {2, 5} }

\* what the external services may answer (callExternalAPI gives null when the
\* endpoint is unset, the call fails or the answer is not ok)
ExternalFiltersValues == {None, Some([additionalFilters |-> [bodyType |-> <<"sedan">>]])}
MlRecommendationsValues ==
    {None, Some([scores |-> [id \in VehicleIds |-> IF id = "B" THEN Some(70) ELSE None]])}
ExternalScoreValues ==
    {None, Some([score |-> Some(85), reasons |-> Some(<<"Editor pick">>)])}

\* the Mongo filter: isActive, price.msrp in [min, max x budgetFlexibility] when
\* a budget is given, bodyType $in the wanted type and its similar types
buildFilter(preferences, externalFilters) ==
    LET msrp == IF preferences.budget # None
                THEN Some([gte |-> preferences.budget[1].min,
                           lte100 |-> preferences.budget[1].max * budgetFlexibilityPct])
                ELSE None
        vehicleTypes == IF preferences.vehicleType # None
                        THEN <<preferences.vehicleType[1]>>
                               \o similarTypes(preferences.vehicleType[1])
                        ELSE <<>>
    IN [isActive |-> TRUE,
        msrp |-> msrp,
        bodyType |-> IF externalFilters # None
                     THEN Some(externalFilters[1].additionalFilters.bodyType)
                     ELSE Some(vehicleTypes)]

matches(doc, filter) ==
    /\ doc.isActive = filter.isActive
    /\ filter.msrp # None =>
         /\ doc.price.msrp >= filter.msrp[1].gte
         /\ doc.price.msrp * 100 <= filter.msrp[1].lte100
    /\ filter.bodyType # None => includes(filter.bodyType[1], doc.bodyType)

\* Vehicle.find(filter).limit(n)
find(collection, filter) == SelectSeq(collection, LAMBDA doc : matches(doc, filter))
limit(array, n) == SubSeq(array, 1, MathMin(n, Len(array)))

\* the map callback up to its first await: the computed score and reasons, the
\* score replaced by the ML score of the vehicle when there is one
scoreEntry(vehicle, preferences, mlRecommendations) ==
    LET mlScore == IF mlRecommendations # None
                   THEN mlRecommendations[1].scores[vehicle._id] ELSE None
    IN [vehicle |-> vehicle,
        score |-> IF Truthy(mlScore) THEN mlScore[1]
                  ELSE calculateMatchScore(Some(vehicle), preferences).value,
        matchReasons |-> generateMatchReasons(Some(vehicle), preferences).value]

\* the rest of the callback, after the external scoring API answered
applyExternalScore(entry, externalScore) ==
    [entry EXCEPT
       !.score = IF externalScore # None /\ Truthy(externalScore[1].score)
                 THEN externalScore[1].score[1] ELSE @,
       !.matchReasons = IF externalScore # None /\ externalScore[1].reasons # None
                        THEN @ \o externalScore[1].reasons[1] ELSE @]

\* Promise.all: the results in the order of the input promises
PromiseAllInSettleOrder(ts, order) == [k \in 1..Len(ts) |-> ts[order[k]].entry]
PromiseAll(ts, order) == [i \in 1..Len(ts) |-> ts[i].entry]

\* (a, b) => b.score - a.score, the scores being numbers
compareAscending(a, b) == Num(a.score - b.score)
compare(a, b) == Num(b.score - a.score)

\* (a, b) => b.matchScore - a.matchScore, where a matchScore may be NaN
compareMatchScore(a, b) == Minus(b.matchScore, a.matchScore)

\* the comparator's value as the sort uses it: NaN counts as +0
SortCompare(v) == IF v.nan THEN 0 ELSE v.value

\* Array.prototype.sort (stable since ES2019; the code's optional chaining
\* needs a later runtime): insertion after every element that does not have
\* to follow x.  comparefn is the comparator as a function of the pair.
RECURSIVE insertSortedBeforeEqual(_, _, _)
insertSortedBeforeEqual(sorted, x, comparefn) ==
    IF sorted = <<>> THEN <<x>>
    ELSE IF SortCompare(comparefn[<<Head(sorted), x>>]) >= 0 THEN <<x>> \o sorted
    ELSE <<Head(sorted)>> \o insertSortedBeforeEqual(Tail(sorted), x, comparefn)

RECURSIVE insertSorted(_, _, _)
insertSorted(sorted, x, comparefn) ==
    IF sorted = <<>> THEN <<x>>
    ELSE IF SortCompare(comparefn[<<Head(sorted), x>>]) > 0 THEN <<x>> \o sorted
    ELSE <<Head(sorted)>> \o insertSorted(Tail(sorted), x, comparefn)

RECURSIVE sortPrefix(_, _, _)
sortPrefix(array, n, comparefn) ==
    IF n = 0 THEN <<>>
    ELSE insertSorted(sortPrefix(array, n - 1, comparefn), array[n], comparefn)

sort(array, comparefn) == sortPrefix(array, Len(array), comparefn)

Elements(array) == { array[i] : i \in DOMAIN array }

\* recommendations.sort((a, b) => b.score - a.score)
sortByScore(array) ==
    sort(array, [p \in Elements(array) \X Elements(array) |-> compare(p[1], p[2])])

\* .sort((a, b) => b.matchScore - a.matchScore)
sortByMatchScore(array) ==
    sort(array, [p \in Elements(array) \X Elements(array) |-> compareMatchScore(p[1], p[2])])

\* Array.prototype.slice(0, end)
slice(array, end) == SubSeq(array, 1, MathMin(end, Len(array)))

VehicleLimitsValues ==
    { [recommendationVehicles |-> v, topRecommendations |-> t] : v \in {2, 10}, t \in {2, 5} }

\* the filter of the for-me route: as buildFilter without external filters,
\* and with no bodyType condition when no vehicleType is wanted
forMeFilter(preferences) ==
    [isActive |-> TRUE,
     msrp |-> IF preferences.budget # None
              THEN Some([gte |-> preferences.budget[1].min,
                         lte100 |-> preferences.budget[1].max * budgetFlexibilityPct])
              ELSE None,
     bodyType |-> IF preferences.vehicleType # None
                  THEN Some(<<preferences.vehicleType[1]>>
                              \o similarTypes(preferences.vehicleType[1]))
                  ELSE None]

\* the map callback of the for-me route, given what calculateMatchScore returned
matchEntry(vehicle, result) ==
    [vehicle |-> vehicle,
     matchScore |-> IF result.kind = "NaN" THEN NaN ELSE Num(result.value),
     matchReasons |-> <<>>]

InitRank ==
    /\ pc = "start"
    /\ argVehicle = None
    /\ argPreferences = None
    /\ retScore = NotCalled
    /\ increments = NoIncrements
    /\ retReasons = NotCalled
    /\ retMatchScore = NotCalled
    /\ matchIncrements = NoIncrements
    /\ retLocal = NotCalled
    /\ processEnv \in ProcessEnvValues
    /\ \/ quizConfig \in QuizConfigValues /\ vehicleLimits = DefaultVehicleLimits
       \/ quizConfig = DefaultQuizConfig /\ vehicleLimits \in VehicleLimitsValues
    /\ vehicleFeatures = [enableMatchScoring |-> TRUE]
    /\ route = "none"
    /\ outcome = "none"
    /\ rpc = "idle"
    /\ db \in DbValues
    /\ reqPreferences \in RankPreferencesValues
    /\ vehicles = <<>>
    /\ tasks = <<>>
    /\ settled = <<>>
    /\ recommendations = <<>>
    /\ previous = None
    /\ quizResult = None
    /\ AppIdle

\* null preferences: `preferences.budget` throws inside the try, the catch logs
\* and returns []
getVehicleRecommendationsThrows ==
    /\ rpc = "idle"
    /\ reqPreferences = None
    /\ route' = "quiz"
    /\ outcome' = "caught"
    /\ rpc' = "done"
    /\ recommendations' = <<>>
    /\ UNCHANGED <<db, reqPreferences, vehicles, tasks, settled, previous, quizResult,
                   scoreVars,
                   configVars, appVars>>

\* from the call to the creation of Promise.all: the filter (with the external
\* filters when external scoring is on), the lookup, the ML scores, and every
\* map callback up to its first await
getVehicleRecommendationsStart ==
    /\ rpc = "idle"
    /\ reqPreferences # None
    /\ \E externalFilters \in
            IF quizConfig.features.enableExternalScoringAPI
            THEN ExternalFiltersValues ELSE {None},
          mlRecommendations \in
            IF quizConfig.features.enableMLRecommendations
            THEN MlRecommendationsValues ELSE {None} :
         LET found == limit(find(db, buildFilter(reqPreferences[1], externalFilters)),
                            quizConfig.recommendations.maxVehicles)
         IN /\ vehicles' = found
            /\ tasks' =
                 [i \in 1..Len(found) |->
                    [state |-> IF quizConfig.features.enableExternalScoringAPI
                               THEN "suspended" ELSE "fulfilled",
                     entry |-> scoreEntry(found[i], reqPreferences, mlRecommendations)]]
            /\ settled' = IF quizConfig.features.enableExternalScoringAPI
                          THEN <<>> ELSE [i \in 1..Len(found) |-> i]
    /\ route' = "quiz"
    /\ rpc' = "awaiting"
    /\ UNCHANGED <<outcome, db, reqPreferences, recommendations, previous, quizResult,
                   scoreVars,
                   configVars, appVars>>

\* the external scoring API answers for the i-th vehicle and its callback
\* runs to the end
ExternalScoringReply ==
    /\ rpc = "awaiting"
    /\ \E i \in DOMAIN tasks, externalScore \in ExternalScoreValues :
         /\ tasks[i].state = "suspended"
         /\ tasks' = [tasks EXCEPT ![i] =
                        [state |-> "fulfilled",
                         entry |-> applyExternalScore(@.entry, externalScore)]]
         /\ settled' = Append(settled, i)
    /\ UNCHANGED <<route, outcome, rpc, db, reqPreferences, vehicles, recommendations,
                   previous, quizResult, scoreVars, configVars, appVars>>

\* every callback has completed: Promise.all resolves, the list is sorted,
\* cut to topRecommendations and returned
PromiseAllResolve ==
    /\ rpc = "awaiting"
    /\ \A i \in DOMAIN tasks : tasks[i].state = "fulfilled"
    /\ recommendations' =
         slice(sortByScore(PromiseAll(tasks, settled)),
               quizConfig.recommendations.topRecommendations)
    /\ outcome' = "ok"
    /\ rpc' = "done"
    /\ UNCHANGED <<route, db, reqPreferences, vehicles, tasks, settled, previous,
                   quizResult, scoreVars,
                   configVars, appVars>>

\* the caller asks once more with the same preferences, the collection and the
\* configuration unchanged; what the first call attached to each vehicle is
\* remembered for comparison
getVehicleRecommendationsAgain ==
    /\ rpc = "done"
    /\ route = "quiz"
    /\ outcome = "ok"
    /\ previous = None
    /\ previous' =
         Some([id \in VehicleIds |->
                 IF \E k \in DOMAIN tasks : tasks[k].entry.vehicle._id = id
                 THEN Some(tasks[CHOOSE k \in DOMAIN tasks :
                                   tasks[k].entry.vehicle._id = id].entry)
                 ELSE None])
    /\ route' = "none"
    /\ outcome' = "none"
    /\ rpc' = "idle"
    /\ vehicles' = <<>>
    /\ tasks' = <<>>
    /\ settled' = <<>>
    /\ recommendations' = <<>>
    /\ UNCHANGED <<db, reqPreferences, quizResult, scoreVars, configVars, appVars>>

\* GET /recommendations/for-me of a user without preferences: 400
forMePreferencesNotFound ==
    /\ rpc = "idle"
    /\ reqPreferences = None
    /\ route' = "forMe"
    /\ outcome' = "400"
    /\ rpc' = "done"
    /\ UNCHANGED <<db, reqPreferences, vehicles, tasks, settled, recommendations, previous,
                   quizResult, scoreVars, configVars, appVars>>

\* GET /recommendations/for-me, the internal recommendations: filter, lookup,
\* map with the Vehicle model's calculateMatchScore, sort, slice.  A throw of
\* calculateMatchScore reaches the route's catch, which answers 500.
forMeRecommendations ==
    /\ rpc = "idle"
    /\ reqPreferences # None
    /\ LET found == limit(find(db, forMeFilter(reqPreferences[1])),
                          vehicleLimits.recommendationVehicles)
           results == [i \in 1..Len(found) |->
                         Vehicle_calculateMatchScore(found[i], reqPreferences)]
           mapped == [i \in 1..Len(found) |-> matchEntry(found[i], results[i])]
       IN /\ vehicles' = found
          /\ IF \E i \in 1..Len(found) : results[i].kind = "throw"
             THEN /\ outcome' = "500"
                  /\ tasks' = <<>>
                  /\ recommendations' = <<>>
             ELSE /\ outcome' = "ok"
                  /\ tasks' = [i \in 1..Len(found) |->
                                 [state |-> "fulfilled", entry |-> mapped[i]]]
                  /\ recommendations' =
                       slice(sortByMatchScore(mapped), vehicleLimits.topRecommendations)
    /\ route' = "forMe"
    /\ rpc' = "done"
    /\ UNCHANGED <<db, reqPreferences, settled, previous, quizResult, scoreVars,
                   configVars, appVars>>

\* recommendations.reduce((sum, rec) => sum + rec.score, 0) over the first n
RECURSIVE SumScores(_, _)
SumScores(list, n) == IF n = 0 THEN 0 ELSE SumScores(list, n - 1) + list[n].score

\* POST /quiz/submit after its one call of getVehicleRecommendations has
\* returned (the list, or [] from its catch): quizResult.score is Math.round
\* of the mean of the scores, 0 / 0 for an empty list
meanScore(list) ==
    IF Len(list) = 0 THEN NaN
    ELSE Num(MathRound((SumScores(list, Len(list)) * Unit) \div Len(list)))

submitQuizResult ==
    /\ rpc = "done"
    /\ route = "quiz"
    /\ previous = None
    /\ quizResult' = Some([score |-> meanScore(recommendations),
                           recommendations |-> recommendations])
    /\ rpc' = "submitted"
    /\ UNCHANGED <<route, outcome, db, reqPreferences, vehicles, tasks, settled,
                   recommendations, previous, scoreVars, configVars, appVars>>

NextRank ==
    \/ getVehicleRecommendationsThrows
    \/ getVehicleRecommendationsStart
    \/ ExternalScoringReply
    \/ PromiseAllResolve
    \/ getVehicleRecommendationsAgain
    \/ forMePreferencesNotFound
    \/ forMeRecommendations
    \/ submitQuizResult

SpecRank == InitRank /\ [][NextRank]_vars

(***************************************************************************)
(* The idle state of the scoring and ranking variables and the default     *)
(* configuration, for the specifications of the other services.            *)
(***************************************************************************)
ScoreIdle ==
    /\ pc = "start"
    /\ argVehicle = None
    /\ argPreferences = None
    /\ retScore = NotCalled
    /\ increments = NoIncrements
    /\ retReasons = NotCalled
    /\ retMatchScore = NotCalled
    /\ matchIncrements = NoIncrements
    /\ retLocal = NotCalled

ConfigDefault ==
    /\ processEnv = [ADDITIONAL_MATCH_REASONS |-> <<>>]
    /\ quizConfig = DefaultQuizConfig
    /\ vehicleFeatures = [enableMatchScoring |-> TRUE]
    /\ vehicleLimits = DefaultVehicleLimits

(***************************************************************************)
(* sendWithFallback of the email service (src/unnamed/part_000).  Calls    *)
(* overlap: sendBulkEmail starts a batch of sendEmail calls before it       *)
(* awaits any, and every request handler that sends mail runs on the same  *)
(* emailConfig object.  A step of a call runs from one await to the next.  *)
(***************************************************************************)
\* "backup" stands for a provider name without a branch of its own in
\* createTransporter: it gets the SMTP transport of the default branch
exceptEmail == <<scoreVars, rankVars, configVars, favVars, otpVars, viewVars,
                pageVars>>

EmailConfigValues ==
    { [features |-> [enableFallbackProvider |-> e],
       providers |-> [primary |-> p, fallback |-> f]] :
        e \in BOOLEAN, p \in {"smtp", "sendgrid"},
        f \in {None, Some("sendgrid"), Some("backup")} }

\* the branches of createTransporter that name nodemailer.createTransporter
NamedProviders == {"sendgrid", "ses", "mailgun"}

\* createTransporter: the transport chosen by the switch on the provider
createTransporter(provider) == IF provider \in NamedProviders THEN provider ELSE "smtp"

\* how the call ends: the default branch calls nodemailer.createTransport; the
\* named branches call nodemailer.createTransporter, which the library (not
\* part of the repository) may or may not provide
CreateOutcomes(provider) ==
    IF provider \in NamedProviders THEN {"created", "TypeError"} ELSE {"created"}

InitEmail ==
    /\ ScoreIdle
    /\ ConfigDefault
    /\ RankIdle
    /\ FavIdle
    /\ OtpIdle
    /\ ViewIdle
    /\ PageIdle
    /\ emailConfig \in EmailConfigValues
    /\ primaryAtStart = emailConfig.providers.primary
    /\ calls = [c \in Calls |-> IdleCall]

\* line 376: the primary transporter is created from the current
\* emailConfig.providers.primary (outside the try), then sendMail is awaited
sendWithFallbackStart(c) ==
    /\ calls[c].pc = "idle"
    /\ \E created \in CreateOutcomes(emailConfig.providers.primary) :
         calls' = [calls EXCEPT ![c] =
                     IF created = "created"
                     THEN [@ EXCEPT !.pc = "primarySending",
                                    !.primaryTransporter =
                                        Some(emailConfig.providers.primary)]
                     ELSE [@ EXCEPT !.pc = "thrown"]]
    /\ UNCHANGED <<emailConfig, primaryAtStart, exceptEmail>>

\* the primary sendMail settles: on success the call returns; on failure the
\* catch block either rethrows or saves the current primary, overwrites it
\* with the fallback, creates the fallback transporter and awaits its sendMail
\* (a throw of the creation runs the finally at once)
primarySendMailSettles(c) ==
    /\ calls[c].pc = "primarySending"
    /\ \E sent \in BOOLEAN :
         IF sent
         THEN /\ calls' = [calls EXCEPT ![c].pc = "returned"]
              /\ UNCHANGED emailConfig
         ELSE IF emailConfig.features.enableFallbackProvider
                   /\ emailConfig.providers.fallback # None
         THEN \E created \in CreateOutcomes(emailConfig.providers.fallback[1]) :
                IF created = "created"
                THEN /\ emailConfig' = [emailConfig EXCEPT !.providers.primary =
                                           emailConfig.providers.fallback[1]]
                     /\ calls' = [calls EXCEPT ![c] =
                                    [@ EXCEPT !.pc = "fallbackSending",
                                              !.originalProvider =
                                                  Some(emailConfig.providers.primary)]]
                ELSE /\ UNCHANGED emailConfig
                     /\ calls' = [calls EXCEPT ![c] =
                                    [@ EXCEPT !.pc = "thrown",
                                              !.originalProvider =
                                                  Some(emailConfig.providers.primary)]]
         ELSE /\ calls' = [calls EXCEPT ![c].pc = "thrown"]
              /\ UNCHANGED emailConfig
    /\ UNCHANGED <<primaryAtStart, exceptEmail>>

\* the fallback sendMail settles: on success the usage log is awaited; on
\* failure the finally restores the saved provider and the error propagates
fallbackSendMailSettles(c) ==
    /\ calls[c].pc = "fallbackSending"
    /\ \E sent \in BOOLEAN :
         IF sent
         THEN /\ calls' = [calls EXCEPT ![c].pc = "logging"]
              /\ UNCHANGED emailConfig
         ELSE /\ calls' = [calls EXCEPT ![c].pc = "thrown"]
              /\ emailConfig' = [emailConfig EXCEPT !.providers.primary =
                                    calls[c].originalProvider[1]]
    /\ UNCHANGED <<primaryAtStart, exceptEmail>>

\* callExternalAPI resolves (it never rejects): the finally restores the saved
\* provider and the call returns the fallback's result
fallbackLogged(c) ==
    /\ calls[c].pc = "logging"
    /\ calls' = [calls EXCEPT ![c].pc = "returned"]
    /\ emailConfig' = [emailConfig EXCEPT !.providers.primary =
                          calls[c].originalProvider[1]]
    /\ UNCHANGED <<primaryAtStart, exceptEmail>>

NextEmail ==
    \/ \E c \in Calls : sendWithFallbackStart(c)
    \/ \E c \in Calls : primarySendMailSettles(c)
    \/ \E c \in Calls : fallbackSendMailSettles(c)
    \/ \E c \in Calls : fallbackLogged(c)

SpecEmail == InitEmail /\ [][NextEmail]_vars

(***************************************************************************)
(* POST and DELETE /vehicles/:id/favorite (backend/routes/vehicles.js) with *)
(* addToFavorites / removeFromFavorites of the User model.  Requests       *)
(* overlap; a step of a request runs from one await to the next, and a     *)
(* save takes effect on the stored document when its await resolves.       *)
(*                                                                         *)
(* Mongoose saves what the document changed: a push onto an array is sent  *)
(* as a $push of the new element, an assigned array and an assigned number *)
(* as a $set of the value; every array change increments __v, and a $set   *)
(* of a whole array made from a stale __v may be rejected (VersionError).  *)
(***************************************************************************)
exceptFav == <<scoreVars, rankVars, configVars, emailVars, otpVars, viewVars,
                pageVars>>

decrementValue == 1

InFlight(r) == requests[r].pc \notin {"idle", "done"}

\* the number of users whose stored favoriteVehicles holds the vehicle
Holders(vehicleId) ==
    Cardinality({ u \in UserIds : includes(dbUsers[u].favoriteVehicles, vehicleId) })

filter(array, vehicleId) == SelectSeq(array, LAMBDA fav : fav # vehicleId)

\* addToFavorites up to its save: push unless already there, stats updated
addToFavorites(this, vehicleId) ==
    IF ~includes(this.favoriteVehicles, vehicleId)
    THEN [this EXCEPT !.favoriteVehicles = Append(@, vehicleId),
                      !.stats.favoritesCount = Len(this.favoriteVehicles) + 1]
    ELSE this

\* removeFromFavorites up to its save
removeFromFavorites(this, vehicleId) ==
    [this EXCEPT !.favoriteVehicles = filter(@, vehicleId),
                 !.stats.favoritesCount = Len(filter(this.favoriteVehicles, vehicleId))]

UserWithFavorites(favs) ==
    [favoriteVehicles |-> favs, stats |-> [favoritesCount |-> Len(favs)], __v |-> 0]

InitFavorites ==
    /\ ScoreIdle
    /\ ConfigDefault
    /\ RankIdle
    /\ EmailIdle
    /\ OtpIdle
    /\ ViewIdle
    /\ PageIdle
    /\ initialFavorites \in {0, 1}
    /\ dbUsers \in { [u \in UserIds |-> IF u = "u1" THEN UserWithFavorites(favs)
                                        ELSE NewUser] :
                        favs \in {<<>>, <<"V2", "V1">>} }
    /\ dbFavorites = [id \in FavoriteVehicleIds |-> initialFavorites + Holders(id)]
    /\ requests = [r \in Requests |-> IdleRequest]
    /\ overlapped = FALSE

\* POST: Vehicle.findById resolves (the vehicle exists and is active)
postFindVehicle(r) ==
    /\ requests[r].pc = "idle"
    /\ \E u \in UserIds, vehicleId \in FavoriteVehicleIds :
         requests' = [requests EXCEPT ![r] =
                        [IdleRequest EXCEPT
                           !.pc = "findUser", !.method = "POST", !.userId = u,
                           !.vehicleId = vehicleId,
                           !.vehicle = Some([metadata |->
                                               [favorites |-> dbFavorites[vehicleId]]])]]
    /\ overlapped' = (overlapped \/ \E other \in Requests : InFlight(other))
    /\ UNCHANGED <<initialFavorites, dbFavorites, dbUsers, exceptFav>>

\* POST: User.findById resolves; 400 when already a favourite, else
\* addToFavorites pushes on the loaded document and starts its save
postFindUser(r) ==
    /\ requests[r].pc = "findUser"
    /\ LET user == dbUsers[requests[r].userId]
           isAlreadyFavorited == includes(user.favoriteVehicles, requests[r].vehicleId)
       IN requests' = [requests EXCEPT ![r] =
                         IF isAlreadyFavorited
                         THEN [@ EXCEPT !.pc = "done", !.status = 400, !.user = Some(user)]
                         ELSE [@ EXCEPT !.pc = "saveUser",
                                        !.user = Some(addToFavorites(
                                                        user, requests[r].vehicleId))]]
    /\ UNCHANGED <<initialFavorites, dbFavorites, dbUsers, overlapped, exceptFav>>

\* POST: the user's save is applied ($push of the favourite, $set of the
\* count); the handler adds 1 to the loaded vehicle's counter and starts the
\* vehicle's save
postSaveUser(r) ==
    /\ requests[r].pc = "saveUser"
    /\ requests[r].method = "POST"
    /\ dbUsers' = [dbUsers EXCEPT ![requests[r].userId] =
                     [favoriteVehicles |-> Append(@.favoriteVehicles, requests[r].vehicleId),
                      stats |-> [favoritesCount |->
                                   requests[r].user[1].stats.favoritesCount],
                      __v |-> @.__v + 1]]
    /\ requests' = [requests EXCEPT ![r] =
                      [@ EXCEPT !.pc = "saveVehicle",
                                !.vehicle = Some([metadata |-> [favorites |->
                                    requests[r].vehicle[1].metadata.favorites + 1]])]]
    /\ UNCHANGED <<initialFavorites, dbFavorites, overlapped, exceptFav>>

\* POST: the vehicle's save is applied ($set of the counter); 200
postSaveVehicle(r) ==
    /\ requests[r].pc = "saveVehicle"
    /\ requests[r].method = "POST"
    /\ dbFavorites' = [dbFavorites EXCEPT ![requests[r].vehicleId] =
                         requests[r].vehicle[1].metadata.favorites]
    /\ requests' = [requests EXCEPT ![r] = [@ EXCEPT !.pc = "done", !.status = 200]]
    /\ UNCHANGED <<initialFavorites, dbUsers, overlapped, exceptFav>>

\* DELETE: User.findById resolves; 400 when not a favourite, else
\* removeFromFavorites filters the loaded document and starts its save
deleteFindUser(r) ==
    /\ requests[r].pc = "idle"
    /\ \E u \in UserIds, vehicleId \in FavoriteVehicleIds :
         LET user == dbUsers[u]
             isInFavorites == includes(user.favoriteVehicles, vehicleId)
         IN requests' = [requests EXCEPT ![r] =
                           IF ~isInFavorites
                           THEN [IdleRequest EXCEPT
                                   !.pc = "done", !.method = "DELETE", !.userId = u,
                                   !.vehicleId = vehicleId, !.status = 400,
                                   !.user = Some(user)]
                           ELSE [IdleRequest EXCEPT
                                   !.pc = "saveUser", !.method = "DELETE", !.userId = u,
                                   !.vehicleId = vehicleId,
                                   !.user = Some(removeFromFavorites(user, vehicleId))]]
    /\ overlapped' = (overlapped \/ \E other \in Requests : InFlight(other))
    /\ UNCHANGED <<initialFavorites, dbFavorites, dbUsers, exceptFav>>

\* DELETE: the user's save is applied ($set of the filtered array and of the
\* count) and Vehicle.findById starts; or, the stored __v having moved since
\* the load, the save is rejected and the catch answers 500
deleteSaveUser(r) ==
    /\ requests[r].pc = "saveUser"
    /\ requests[r].method = "DELETE"
    /\ \/ /\ dbUsers' = [dbUsers EXCEPT ![requests[r].userId] =
                            [favoriteVehicles |-> requests[r].user[1].favoriteVehicles,
                             stats |-> requests[r].user[1].stats,
                             __v |-> @.__v + 1]]
          /\ requests' = [requests EXCEPT ![r].pc = "findVehicle"]
       \/ /\ dbUsers[requests[r].userId].__v # requests[r].user[1].__v
          /\ requests' = [requests EXCEPT ![r] = [@ EXCEPT !.pc = "done", !.status = 500]]
          /\ UNCHANGED dbUsers
    /\ UNCHANGED <<initialFavorites, dbFavorites, overlapped, exceptFav>>

\* DELETE: Vehicle.findById resolves; the counter is decremented, not below
\* 0, on the loaded document and the vehicle's save starts
deleteFindVehicle(r) ==
    /\ requests[r].pc = "findVehicle"
    /\ requests' = [requests EXCEPT ![r] =
                      [@ EXCEPT !.pc = "saveVehicle",
                                !.vehicle = Some([metadata |-> [favorites |->
                                    MathMax(0, dbFavorites[requests[r].vehicleId]
                                                 - decrementValue)]])]]
    /\ UNCHANGED <<initialFavorites, dbFavorites, dbUsers, overlapped, exceptFav>>

\* DELETE: the vehicle's save is applied; 200
deleteSaveVehicle(r) ==
    /\ requests[r].pc = "saveVehicle"
    /\ requests[r].method = "DELETE"
    /\ dbFavorites' = [dbFavorites EXCEPT ![requests[r].vehicleId] =
                         requests[r].vehicle[1].metadata.favorites]
    /\ requests' = [requests EXCEPT ![r] = [@ EXCEPT !.pc = "done", !.status = 200]]
    /\ UNCHANGED <<initialFavorites, dbUsers, overlapped, exceptFav>>

NextFavorites ==
    \/ \E r \in Requests : postFindVehicle(r)
    \/ \E r \in Requests : postFindUser(r)
    \/ \E r \in Requests : postSaveUser(r)
    \/ \E r \in Requests : postSaveVehicle(r)
    \/ \E r \in Requests : deleteFindUser(r)
    \/ \E r \in Requests : deleteSaveUser(r)
    \/ \E r \in Requests : deleteFindVehicle(r)
    \/ \E r \in Requests : deleteSaveVehicle(r)

SpecFavorites == InitFavorites /\ [][NextFavorites]_vars

(***************************************************************************)
(* generateOTP / verifyOTP of the User model and the routes that call them *)
(* (POST /auth/verify-otp, POST /auth/resend-otp of backend/routes/auth.js)*)
(* for one user.  Each request works on the document its findOne loaded;   *)
(* a step of a request runs from one await to the next.  Time is in        *)
(* minutes.                                                                *)
(***************************************************************************)
exceptOtp == <<scoreVars, rankVars, configVars, emailVars, favVars, viewVars,
                pageVars>>

otpLifetime == 10
OtpValues == {"123456", "654321"}
ClockValues == {0, 5, 10, 15}

\* generateOTP, with the six digits Math.random gave
generateOTP(this, otp, t) ==
    [this EXCEPT !.otp = Some(otp), !.otpExpires = Some(t + otpLifetime),
                 !.isOtpVerified = FALSE]

\* verifyOTP: what it returns and the document it leaves
verifyOTP(this, candidateOTP, t) ==
    IF this.otp = None \/ this.otpExpires = None THEN [result |-> FALSE, this |-> this]
    ELSE IF t > this.otpExpires[1] THEN [result |-> FALSE, this |-> this]
    ELSE IF this.otp[1] # candidateOTP THEN [result |-> FALSE, this |-> this]
    ELSE [result |-> TRUE,
          this |-> [this EXCEPT !.isOtpVerified = TRUE, !.isEmailVerified = TRUE,
                                !.emailVerifiedAt = Some(t), !.otp = None,
                                !.otpExpires = None]]

\* after POST /auth/register: the user created and its first OTP saved
InitOtp ==
    /\ ScoreIdle
    /\ ConfigDefault
    /\ RankIdle
    /\ EmailIdle
    /\ FavIdle
    /\ ViewIdle
    /\ PageIdle
    /\ now = 0
    /\ dbUser \in { generateOTP(UnverifiedUser, otp, 0) : otp \in OtpValues }
    /\ otpRequests = [r \in OtpRequests |-> IdleOtpRequest]
    /\ lastVerify = None
    /\ verifiedSinceGenerate = FALSE

\* time passes
Tick ==
    /\ \E t \in ClockValues : t > now /\ now' = t
    /\ UNCHANGED <<dbUser, otpRequests, lastVerify, verifiedSinceGenerate, exceptOtp>>

\* POST /verify-otp: User.findOne resolves; 400 when the email is verified
\* already; else verifyOTP on the loaded document, 400 when it returns false,
\* and the save of the document starts when it returns true
verifyOtpFindUser(r) ==
    /\ otpRequests[r].pc = "idle"
    /\ \E candidateOTP \in OtpValues :
         LET verified == verifyOTP(dbUser, candidateOTP, now)
         IN IF dbUser.isEmailVerified
            THEN /\ otpRequests' = [otpRequests EXCEPT ![r] =
                                      [pc |-> "done", route |-> "verify-otp",
                                       user |-> Some(dbUser), status |-> 400]]
                 /\ UNCHANGED <<lastVerify, verifiedSinceGenerate>>
            ELSE /\ otpRequests' = [otpRequests EXCEPT ![r] =
                                      [pc |-> IF verified.result THEN "save" ELSE "done",
                                       route |-> "verify-otp",
                                       user |-> Some(verified.this),
                                       status |-> IF verified.result THEN 0 ELSE 400]]
                 /\ lastVerify' = Some([candidateOTP |-> candidateOTP,
                                        result |-> verified.result,
                                        before |-> dbUser,
                                        after |-> verified.this,
                                        at |-> now,
                                        afterVerified |-> verifiedSinceGenerate])
                 /\ verifiedSinceGenerate' = (verifiedSinceGenerate \/ verified.result)
    /\ UNCHANGED <<now, dbUser, exceptOtp>>

\* POST /verify-otp: the save is applied (the fields verifyOTP changed); 200
verifyOtpSaved(r) ==
    /\ otpRequests[r].pc = "save"
    /\ otpRequests[r].route = "verify-otp"
    /\ dbUser' = [dbUser EXCEPT
                    !.isOtpVerified = otpRequests[r].user[1].isOtpVerified,
                    !.isEmailVerified = otpRequests[r].user[1].isEmailVerified,
                    !.emailVerifiedAt = otpRequests[r].user[1].emailVerifiedAt,
                    !.otp = otpRequests[r].user[1].otp,
                    !.otpExpires = otpRequests[r].user[1].otpExpires]
    /\ otpRequests' = [otpRequests EXCEPT ![r] = [@ EXCEPT !.pc = "done", !.status = 200]]
    /\ UNCHANGED <<now, lastVerify, verifiedSinceGenerate, exceptOtp>>

\* POST /resend-otp: User.findOne resolves; 400 when the email is verified
\* already; else generateOTP on the loaded document and its save starts
resendOtpFindUser(r) ==
    /\ otpRequests[r].pc = "idle"
    /\ IF dbUser.isEmailVerified
       THEN /\ otpRequests' = [otpRequests EXCEPT ![r] =
                                 [pc |-> "done", route |-> "resend-otp",
                                  user |-> Some(dbUser), status |-> 400]]
            /\ UNCHANGED verifiedSinceGenerate
       ELSE /\ \E otp \in OtpValues :
                 otpRequests' = [otpRequests EXCEPT ![r] =
                                   [pc |-> "save", route |-> "resend-otp",
                                    user |-> Some(generateOTP(dbUser, otp, now)),
                                    status |-> 0]]
            /\ verifiedSinceGenerate' = FALSE
    /\ UNCHANGED <<now, dbUser, lastVerify, exceptOtp>>

\* POST /resend-otp: the save is applied (the fields generateOTP set); the
\* OTP is mailed and the route answers 200
resendOtpSaved(r) ==
    /\ otpRequests[r].pc = "save"
    /\ otpRequests[r].route = "resend-otp"
    /\ dbUser' = [dbUser EXCEPT
                    !.otp = otpRequests[r].user[1].otp,
                    !.otpExpires = otpRequests[r].user[1].otpExpires,
                    !.isOtpVerified = otpRequests[r].user[1].isOtpVerified]
    /\ otpRequests' = [otpRequests EXCEPT ![r] = [@ EXCEPT !.pc = "done", !.status = 200]]
    /\ UNCHANGED <<now, lastVerify, verifiedSinceGenerate, exceptOtp>>

NextOtp ==
    \/ Tick
    \/ \E r \in OtpRequests : verifyOtpFindUser(r)
    \/ \E r \in OtpRequests : verifyOtpSaved(r)
    \/ \E r \in OtpRequests : resendOtpFindUser(r)
    \/ \E r \in OtpRequests : resendOtpSaved(r)

SpecOtp == InitOtp /\ [][NextOtp]_vars

(***************************************************************************)
(* addToViewHistory of the User model, called again and again on one user  *)
(* document (what it does before its save).                                *)
(***************************************************************************)
exceptView == <<scoreVars, rankVars, configVars, emailVars, favVars, otpVars,
               pageVars>>

ViewedVehicleIds == {"V1", "V2", "V3", "V4", "V5"}

\* VIEW_HISTORY_LIMIT set to 2 or 3, or unset
UserLimitsValues == { [viewHistory |-> n] : n \in {2, 3, 50} }

\* the function without its filter of the earlier views of the vehicle
addToViewHistoryUnfiltered(this, vehicleId, limits) ==
    LET unshifted == <<[vehicleId |-> vehicleId]>> \o this.viewHistory
        cut == IF Len(unshifted) > limits.viewHistory
               THEN slice(unshifted, limits.viewHistory) ELSE unshifted
    IN [this EXCEPT !.viewHistory = cut, !.stats.viewedCount = Len(cut)]

\* filter out the earlier views of the vehicle, unshift the new view, cut to
\* limits.viewHistory, set stats.viewedCount
addToViewHistory(this, vehicleId, limits) ==
    LET filtered == SelectSeq(this.viewHistory, LAMBDA view : view.vehicleId # vehicleId)
        unshifted == <<[vehicleId |-> vehicleId]>> \o filtered
        cut == IF Len(unshifted) > limits.viewHistory
               THEN slice(unshifted, limits.viewHistory) ELSE unshifted
    IN [this EXCEPT !.viewHistory = cut, !.stats.viewedCount = Len(cut)]

InitViewHistory ==
    /\ ScoreIdle
    /\ ConfigDefault
    /\ RankIdle
    /\ EmailIdle
    /\ FavIdle
    /\ OtpIdle
    /\ PageIdle
    /\ userLimits \in UserLimitsValues
    /\ viewer = NewViewer
    /\ lastViewed = None

addToViewHistoryCall ==
    /\ \E vehicleId \in ViewedVehicleIds :
         /\ viewer' = addToViewHistory(viewer, vehicleId, userLimits)
         /\ lastViewed' = Some(vehicleId)
    /\ UNCHANGED <<userLimits, exceptView>>

NextViewHistory == addToViewHistoryCall

SpecViewHistory == InitViewHistory /\ [][NextViewHistory]_vars

(***************************************************************************)
(* The quiz page (frontend/quiz.js): the navigation between the questions  *)
(* once the quiz data is loaded and initializeQuiz has run.                *)
(***************************************************************************)
exceptPage == <<scoreVars, rankVars, configVars, emailVars, favVars, otpVars,
               viewVars>>

MaxQuestions == 4
MaxTimers == 2

KeyValues == {"ArrowLeft", "ArrowRight", "Enter", "Escape"}

\* nextQuestion without its test of the last question
nextQuestionUnguarded(index, data) ==
    [called |-> "nextQuestion", currentQuestion |-> index + 1, finishQuiz |-> FALSE]

\* nextQuestion: the index it leaves and whether it calls finishQuiz
nextQuestion(index, data) ==
    IF index < Len(data.questions) - 1
    THEN [called |-> "nextQuestion", currentQuestion |-> index + 1, finishQuiz |-> FALSE]
    ELSE [called |-> "nextQuestion", currentQuestion |-> index, finishQuiz |-> TRUE]

\* previousQuestion: the index it leaves
previousQuestion(index) ==
    [called |-> "previousQuestion",
     currentQuestion |-> IF index > 0 THEN index - 1 ELSE index,
     finishQuiz |-> FALSE]

\* finishQuiz does not write the index
finishQuiz(index) ==
    [called |-> "finishQuiz", currentQuestion |-> index, finishQuiz |-> TRUE]

\* a listener that calls none of them
NothingCalled(index) ==
    [called |-> "none", currentQuestion |-> index, finishQuiz |-> FALSE]

\* the keydown listener
keydown(key, index, data) ==
    IF key = "ArrowLeft" /\ index > 0
    THEN previousQuestion(index)
    ELSE IF key = "ArrowRight" /\ index < Len(data.questions) - 1
    THEN nextQuestion(index, data)
    ELSE IF key = "Enter" /\ index = Len(data.questions) - 1
    THEN finishQuiz(index)
    ELSE NothingCalled(index)

\* the callback of the timer set by selectSingleOption
advanceIfNotLast(index, data) ==
    IF index < Len(data.questions) - 1
    THEN nextQuestion(index, data)
    ELSE NothingCalled(index)

Event(trigger, before, effect) ==
    Some([trigger |-> trigger, called |-> effect.called, before |-> before,
          after |-> effect.currentQuestion, finishQuiz |-> effect.finishQuiz])

\* loadQuizData has set quizData and initializeQuiz has set the index to 0
InitQuizPage ==
    /\ ScoreIdle
    /\ ConfigDefault
    /\ RankIdle
    /\ EmailIdle
    /\ FavIdle
    /\ OtpIdle
    /\ ViewIdle
    /\ quizData \in { [questions |-> [i \in 1..n |-> i]] : n \in 1..MaxQuestions }
    /\ currentQuestion = 0
    /\ timers = 0
    /\ lastEvent = None

\* the Next / Finish button
nextQuestionClick ==
    /\ currentQuestion' = nextQuestion(currentQuestion, quizData).currentQuestion
    /\ lastEvent' = Event("nextBtn", currentQuestion,
                          nextQuestion(currentQuestion, quizData))
    /\ UNCHANGED <<quizData, timers, exceptPage>>

\* the Previous button
previousQuestionClick ==
    /\ currentQuestion' = previousQuestion(currentQuestion).currentQuestion
    /\ lastEvent' = Event("prevBtn", currentQuestion,
                          previousQuestion(currentQuestion))
    /\ UNCHANGED <<quizData, timers, exceptPage>>

\* a key is pressed
keydownEvent ==
    /\ \E key \in KeyValues :
         /\ currentQuestion' = keydown(key, currentQuestion, quizData).currentQuestion
         /\ lastEvent' = Event(key, currentQuestion,
                               keydown(key, currentQuestion, quizData))
    /\ UNCHANGED <<quizData, timers, exceptPage>>

\* an option of a single-choice question is clicked: the answer is stored and
\* the auto-advance timer is set
selectSingleOption ==
    /\ timers < MaxTimers
    /\ timers' = timers + 1
    /\ UNCHANGED <<quizData, currentQuestion, lastEvent, exceptPage>>

\* an auto-advance timer fires
autoAdvance ==
    /\ timers > 0
    /\ timers' = timers - 1
    /\ currentQuestion' = advanceIfNotLast(currentQuestion, quizData).currentQuestion
    /\ lastEvent' = Event("setTimeout", currentQuestion,
                          advanceIfNotLast(currentQuestion, quizData))
    /\ UNCHANGED <<quizData, exceptPage>>

\* retakeQuiz: initializeQuiz sets the index back to 0
retakeQuiz ==
    /\ currentQuestion' = 0
    /\ lastEvent' = Event("retakeQuiz", currentQuestion,
                          [called |-> "initializeQuiz", currentQuestion |-> 0,
                           finishQuiz |-> FALSE])
    /\ UNCHANGED <<quizData, timers, exceptPage>>

NextQuizPage ==
    \/ nextQuestionClick
    \/ previousQuestionClick
    \/ keydownEvent
    \/ selectSingleOption
    \/ autoAdvance
    \/ retakeQuiz

SpecQuizPage == InitQuizPage /\ [][NextQuizPage]_vars

(***************************************************************************)
(* Claims about one scoring call (specification Spec).                     *)
(***************************************************************************)
QuizScored == pc = "quizScored" /\ argVehicle # None /\ argPreferences # None
VehicleScored == pc = "vehicleScored" /\ retMatchScore.kind = "return"
                   /\ vehicleFeatures.enableMatchScoring

\* the budget sub-score the specification gives for an effective price, a
\* budget and a weight
ClaimedBudgetScore(price, budget, weight) ==
    IF budget.min <= price /\ price <= budget.max THEN weight * Unit
    ELSE IF price < budget.min THEN weight * 67 * (Unit \div 100)
    ELSE IF price > budget.max /\ price * 100 <= budget.max * overBudgetTolerancePct
    THEN weight * 50 * (Unit \div 100)
    ELSE 0

\* C1 (quiz route only): with a budget present, the budget increment of
\* calculateMatchScore is budgetWeight inside [min, max], 0.67 x budgetWeight
\* below min, 0.5 x budgetWeight above max up to max x overBudgetTolerance, and
\* 0 beyond.
C1_QuizBudgetScore ==
    (QuizScored /\ argPreferences[1].budget # None) =>
        increments.budget =
          ClaimedBudgetScore(effectivePrice(argVehicle[1]), argPreferences[1].budget[1],
                             budgetWeight)

\* C1: for every vehicle and every preferences with a budget, the budget
\* sub-score of score is budgetWeight inside [min, max], 0.67 x budgetWeight
\* below min, 0.5 x budgetWeight above max up to max x overBudgetTolerance, and
\* 0 otherwise -- for the quiz route's scorer and for the Vehicle model's.
C1_BudgetSubScore ==
    /\ C1_QuizBudgetScore
    /\ VehicleScored =>
         matchIncrements.budget =
           ClaimedBudgetScore(Vehicle_effectivePrice(argVehicle[1]),
                              argPreferences[1].budget[1], vBudgetWeight)

\* the body-type sub-score the specification gives
ClaimedTypeScore(bodyType, vehicleType, weight) ==
    IF vehicleType = Some(bodyType) THEN weight * Unit
    ELSE IF vehicleType # None /\ includes(similarTypes(vehicleType[1]), bodyType)
    THEN weight * 6 * (Unit \div 10)
    ELSE 0

\* C2 (quiz route only): the type increment of calculateMatchScore is
\* typeWeight on an exact match, 0.6 x typeWeight on a similar type, else 0;
\* "suv" against "sedan" gives 0.
C2_QuizTypeScore ==
    QuizScored =>
        /\ increments.type =
             ClaimedTypeScore(argVehicle[1].bodyType, argPreferences[1].vehicleType,
                              typeWeight)
        /\ (argVehicle[1].bodyType = "suv" /\ argPreferences[1].vehicleType = Some("sedan"))
              => increments.type = 0

\* C2: the body-type sub-score of score is typeWeight when bodyType equals
\* vehicleType, 0.6 x typeWeight when bodyType is in similarTypes[vehicleType],
\* and 0 otherwise -- for the quiz route's scorer and for the Vehicle model's.
C2_TypeSubScore ==
    /\ C2_QuizTypeScore
    /\ VehicleScored =>
         matchIncrements.type =
           ClaimedTypeScore(argVehicle[1].bodyType, argPreferences[1].vehicleType,
                            vTypeWeight)

\* min((epa / baseline) x importance x (weight / 10), weight), in units
ClaimedRangeScore(epa, importance, weight, baseline) ==
    IF epa * importance >= baseline * 10 THEN weight * Unit
    ELSE (epa * importance * weight) * (Unit \div (baseline * 10))

\* C3: with rangeImportance present the range sub-score is
\* min((epa / rangeBaseline) x rangeImportance x (rangeWeight / 10), rangeWeight),
\* never above rangeWeight, and exactly 20 for epa 400 and importance 10 --
\* in both scorers.
C3_RangeSubScore ==
    /\ (QuizScored /\ argPreferences[1].rangeImportance # None) =>
         /\ increments.range =
              ClaimedRangeScore(argVehicle[1].specifications.range.epa,
                                argPreferences[1].rangeImportance[1],
                                rangeWeight, rangeBaseline)
         /\ increments.range <= rangeWeight * Unit
         /\ (argVehicle[1].specifications.range.epa = 400
               /\ argPreferences[1].rangeImportance = Some(10))
               => increments.range = 20 * Unit
    /\ VehicleScored =>
         /\ matchIncrements.range =
              ClaimedRangeScore(argVehicle[1].specifications.range.epa,
                                argPreferences[1].rangeImportance[1],
                                vRangeWeight, rangeBaselineEpa)
         /\ matchIncrements.range <= vRangeWeight * Unit

C3_Witness ==
    /\ QuizScored
    /\ argVehicle[1].specifications.range.epa = 400
    /\ argPreferences[1].rangeImportance = Some(10)
    /\ increments.range = 20 * Unit

SumOf(inc) == inc.budget + inc.type + inc.range + inc.tech + inc.eco

\* n is the sum rounded to the nearest integer, halves up:
\* n - 1/2 <= sum < n + 1/2
RoundsHalfUpTo(sum, n) ==
    /\ n \in Int
    /\ 2 * n * Unit - Unit <= 2 * sum
    /\ 2 * sum < 2 * n * Unit + Unit

NullArgument == argVehicle = None \/ argPreferences = None

\* C9: with vehicle or preferences absent or null, score fails at once with
\* an InvalidArgument error and never returns NaN or zero.
C9_InvalidArgument ==
    (pc = "quizScored" /\ NullArgument) =>
        /\ retScore = Throw("InvalidArgument")
        /\ retReasons = Throw("InvalidArgument")

\* What the code does on a null argument: the quiz route's calculateMatchScore and
\* generateMatchReasons throw a TypeError from their first property access
\* and return nothing; Vehicle.calculateMatchScore on null preferences throws
\* a TypeError too, unless match scoring is disabled, when it returns 0.
C9_TypeErrorOnNull ==
    /\ (pc = "quizScored" /\ NullArgument) =>
         /\ retScore = Throw("TypeError")
         /\ retReasons = Throw("TypeError")
    /\ (pc = "vehicleScored" /\ NullArgument) =>
         retMatchScore = IF vehicleFeatures.enableMatchScoring
                         THEN Throw("TypeError") ELSE Return(0)

\* C10 (quiz route only): calculateMatchScore is total on non-null arguments:
\* a missing budget, rangeImportance or techImportance makes its increment 0
\* and a number is returned.
C10_QuizTotal ==
    QuizScored =>
        /\ retScore.kind = "return"
        /\ argPreferences[1].budget = None => increments.budget = 0
        /\ argPreferences[1].rangeImportance = None => increments.range = 0
        /\ argPreferences[1].techImportance = None => increments.tech = 0

\* C10: on structurally valid input score is total: a missing budget,
\* rangeImportance or techImportance makes its sub-score 0, nothing is thrown
\* and a number (not NaN) is returned -- in both scorers.
C10_Total ==
    /\ C10_QuizTotal
    /\ (pc = "vehicleScored" /\ argPreferences # None) => retMatchScore.kind = "return"

(***************************************************************************)
(* Claims about the reasons of one scoring call (specification Spec).      *)
(***************************************************************************)
LocalScored == pc = "localScored"
Has(reasons, label) == \E i \in DOMAIN reasons : reasons[i] = label

Labels ==
    <<"Within budget", "Great value", "Perfect size match", "Excellent range",
      "Advanced technology", "Eco-friendly", "Fast charging">>

\* the condition the specification attaches to a label, price being the
\* effective price
LabelHolds(label, price, vehicle, preferences) ==
    CASE label = "Within budget" ->
            preferences.budget # None /\ price <= preferences.budget[1].max
      [] label = "Great value" ->
            preferences.budget # None /\ price < preferences.budget[1].min
      [] label = "Perfect size match" -> preferences.vehicleType = Some(vehicle.bodyType)
      [] label = "Excellent range" -> vehicle.specifications.range.epa > excellentRange
      [] label = "Advanced technology" -> vehicle.techScore > advancedTech
      [] label = "Eco-friendly" -> vehicle.ecoScore > ecoFriendly
      [] label = "Fast charging" ->
            /\ preferences.chargingFeatures # None
            /\ \E i \in DOMAIN preferences.chargingFeatures[1] :
                  preferences.chargingFeatures[1][i] = "fast-charging"
            /\ vehicle.specifications.charging.dc_max_kw >= fastCharging

ClaimedReasons(price, vehicle, preferences) ==
    SelectSeq(Labels, LAMBDA label : LabelHolds(label, price, vehicle, preferences))

\* C11 (quiz route, ADDITIONAL_MATCH_REASONS unset): generateMatchReasons
\* returns exactly the labels whose condition holds, in the fixed order.
C11_QuizReasonsInFixedOrder ==
    (QuizScored /\ processEnv.ADDITIONAL_MATCH_REASONS = <<>>) =>
        retReasons.value =
          ClaimedReasons(effectivePrice(argVehicle[1]), argVehicle[1], argPreferences[1])

\* C11: the reasons returned for any vehicle and preferences are the
\* subsequence of the seven labels made of exactly the labels whose condition
\* holds, in the fixed order -- from generateMatchReasons and from
\* calculateRecommendationsLocal.
C11_ReasonsInFixedOrder ==
    /\ QuizScored =>
         retReasons.value =
           ClaimedReasons(effectivePrice(argVehicle[1]), argVehicle[1], argPreferences[1])
    /\ LocalScored =>
         retLocal.value.matchReasons =
           ClaimedReasons(Ev(argVehicle[1]).price, argVehicle[1], argPreferences[1])

BelowBudget(price, preferences) ==
    /\ preferences.budget # None
    /\ price < preferences.budget[1].min
    /\ preferences.budget[1].min <= preferences.budget[1].max

\* C13 (quiz route only): below budget.min the budget increment of
\* calculateMatchScore is budgetWeight x 0.67 and generateMatchReasons gives
\* both "Within budget" and "Great value".
C13_QuizBothBudgetReasons ==
    (QuizScored /\ BelowBudget(effectivePrice(argVehicle[1]), argPreferences[1])) =>
        /\ increments.budget = budgetWeight * 67 * (Unit \div 100)
        /\ Has(retReasons.value, "Within budget")
        /\ Has(retReasons.value, "Great value")

\* C13: when effectivePrice < budget.min <= budget.max the budget sub-score is
\* budgetWeight x 0.67 and the reasons contain both "Great value" and
\* "Within budget" -- in the quiz route and in calculateRecommendationsLocal.
C13_BothBudgetReasons ==
    /\ C13_QuizBothBudgetReasons
    /\ (LocalScored /\ BelowBudget(Ev(argVehicle[1]).price, argPreferences[1])) =>
         /\ Has(retLocal.value.matchReasons, "Within budget")
         /\ Has(retLocal.value.matchReasons, "Great value")

\* C14: whenever budget.min <= effectivePrice <= budget.max (e.g. 45000 in
\* [30000, 50000]) the budget sub-score is the full budgetWeight and the
\* reasons include "Within budget" and not "Great value".
C14_WithinBudget ==
    (QuizScored /\ argPreferences[1].budget # None
       /\ argPreferences[1].budget[1].min <= effectivePrice(argVehicle[1])
       /\ effectivePrice(argVehicle[1]) <= argPreferences[1].budget[1].max) =>
        /\ increments.budget = budgetWeight * Unit
        /\ Has(retReasons.value, "Within budget")
        /\ ~Has(retReasons.value, "Great value")

C14_Witness ==
    /\ QuizScored
    /\ argPreferences[1].budget = Some([min |-> 30000, max |-> 50000])
    /\ effectivePrice(argVehicle[1]) = 45000
    /\ increments.budget = 30 * Unit
    /\ Has(retReasons.value, "Within budget")

\* msrp minus the incentives, a negative difference counted as 0
ClampedPrice(vehicle) ==
    LET net == vehicle.price.msrp
                 - (vehicle.price.incentives.federal + vehicle.price.incentives.state
                      + vehicle.price.incentives.local)
    IN IF net < 0 THEN 0 ELSE net

\* C15 (Vehicle model only): where the effectivePrice virtual is compared with
\* the budget, the price is msrp minus incentives and at least 0.
C15_VehicleEffectivePriceClamped ==
    VehicleScored =>
        LET price == ClampedPrice(argVehicle[1])
            budget == argPreferences[1].budget[1]
        IN /\ (budget.min <= price /\ price <= budget.max) =>
                 matchIncrements.budget = vBudgetWeight * Unit
           /\ price < budget.min =>
                 matchIncrements.budget = vBudgetWeight * 67 * (Unit \div 100)

\* C15: the effective price is msrp minus the federal, state and local
\* incentives and never negative: when the incentives exceed msrp it counts
\* as 0 wherever the score and the reasons use it.
C15_EffectivePriceClamped ==
    /\ C15_VehicleEffectivePriceClamped
    /\ (QuizScored /\ argPreferences[1].budget # None) =>
         LET price == ClampedPrice(argVehicle[1])
             budget == argPreferences[1].budget[1]
         IN /\ increments.budget = ClaimedBudgetScore(price, budget, budgetWeight)
            /\ Has(retReasons.value, "Within budget") <=> price <= budget.max
            /\ Has(retReasons.value, "Great value") <=> price < budget.min

\* C16: with techImportance present the tech sub-score is
\* (techScore / 100) x techImportance x (techWeight / 10) with no cap: for
\* techImportance > 10 and techScore 100 it exceeds techWeight, and the score
\* is returned all the same.
C16_TechUncapped ==
    (QuizScored /\ argPreferences[1].techImportance # None) =>
        /\ increments.tech =
             (argVehicle[1].techScore * argPreferences[1].techImportance[1] * techWeight)
                * (Unit \div 1000)
        /\ retScore.kind = "return"
        /\ RoundsHalfUpTo(SumOf(increments), retScore.value)
        /\ (argPreferences[1].techImportance[1] > 10 /\ argVehicle[1].techScore = 100)
              => increments.tech > techWeight * Unit

C16_Witness ==
    /\ QuizScored
    /\ argPreferences[1].techImportance = Some(12)
    /\ argVehicle[1].techScore = 100
    /\ increments.tech = 18 * Unit

ClaimedEcoScore(vehicle, weight) == (vehicle.ecoScore * weight) * (Unit \div 100)

\* C17 (quiz route only): calculateMatchScore adds (ecoScore / 100) x ecoWeight
\* whatever the preferences contain.
C17_QuizEcoAlwaysAdded ==
    QuizScored =>
        /\ increments.eco = ClaimedEcoScore(argVehicle[1], ecoWeight)
        /\ retScore.kind = "return"
        /\ RoundsHalfUpTo(increments.budget + increments.type + increments.range
                            + increments.tech + ClaimedEcoScore(argVehicle[1], ecoWeight),
                          retScore.value)

\* C17: the eco sub-score (ecoScore / 100) x ecoWeight is added to the total
\* for every call of score, whatever the preferences contain -- in both
\* scorers.
C17_EcoAlwaysAdded ==
    /\ C17_QuizEcoAlwaysAdded
    /\ (pc = "vehicleScored" /\ argPreferences # None) =>
         /\ retMatchScore.kind = "return"
         /\ RoundsHalfUpTo(matchIncrements.budget + matchIncrements.type
                             + matchIncrements.range + matchIncrements.tech
                             + ClaimedEcoScore(argVehicle[1], vEcoWeight),
                           retMatchScore.value)

WithEpa(vehicle, epa) == [vehicle EXCEPT !.specifications.range.epa = epa]
WithEcoScore(vehicle, eco) == [vehicle EXCEPT !.ecoScore = eco]

\* C18: every other input fixed, a larger specifications.range.epa never gives
\* a smaller range sub-score.
C18_RangeMonotonic ==
    QuizScored =>
        \A epa \in EpaValues :
            epa >= argVehicle[1].specifications.range.epa =>
                rangeScore(WithEpa(argVehicle[1], epa), argPreferences[1]) >= increments.range

\* a larger epa gives a strictly larger sub-score below the cap
C18_Witness ==
    /\ QuizScored
    /\ argVehicle[1].specifications.range.epa = 150
    /\ argPreferences[1].rangeImportance = Some(5)
    /\ rangeScore(WithEpa(argVehicle[1], 400), argPreferences[1]) > increments.range

\* C19: every other input fixed, a larger ecoScore never gives a smaller
\* (rounded) score.
C19_EcoMonotonic ==
    (QuizScored /\ retScore.kind = "return") =>
        \A eco \in EcoScoreValues :
            eco >= argVehicle[1].ecoScore =>
                calculateMatchScore(Some(WithEcoScore(argVehicle[1], eco)),
                                    argPreferences).value >= retScore.value

C19_Witness ==
    /\ QuizScored
    /\ retScore.kind = "return"
    /\ argVehicle[1].ecoScore = 45
    /\ calculateMatchScore(Some(WithEcoScore(argVehicle[1], 100)), argPreferences).value
         > retScore.value

\* C20: "Fast charging" is a reason if and only if chargingFeatures contains
\* "fast-charging" and dc_max_kw >= the fastCharging threshold (inclusive),
\* while the range, tech and eco reasons need a value strictly above their
\* thresholds.
C20_FastChargingInclusive ==
    QuizScored =>
        /\ Has(retReasons.value, "Fast charging") <=>
             /\ argPreferences[1].chargingFeatures # None
             /\ Has(argPreferences[1].chargingFeatures[1], "fast-charging")
             /\ argVehicle[1].specifications.charging.dc_max_kw >= fastCharging
        /\ Has(retReasons.value, "Excellent range") <=>
             argVehicle[1].specifications.range.epa > excellentRange
        /\ Has(retReasons.value, "Advanced technology") <=>
             argVehicle[1].techScore > advancedTech
        /\ Has(retReasons.value, "Eco-friendly") <=> argVehicle[1].ecoScore > ecoFriendly

\* every threshold met exactly: only "Fast charging" is given
C20_Witness ==
    /\ QuizScored
    /\ argVehicle[1].specifications.charging.dc_max_kw = fastCharging
    /\ argVehicle[1].specifications.range.epa = excellentRange
    /\ argVehicle[1].techScore = advancedTech
    /\ argVehicle[1].ecoScore = ecoFriendly
    /\ Has(retReasons.value, "Fast charging")
    /\ ~Has(retReasons.value, "Excellent range")

(***************************************************************************)
(* Claims about what one scoring call reads and returns (specification     *)
(* Spec).                                                                  *)
(***************************************************************************)
\* C21: a scoring call leaves the vehicle, the preferences and the
\* configuration unchanged and takes its configuration only from what the
\* caller passes: the arguments of the call being the vehicle and the
\* preferences, the reasons returned are the same whatever the process
\* environment holds at the time of the call.
C21_ConfigurationOnlyFromCall ==
    QuizScored =>
        \A env \in ProcessEnvValues :
            retReasons = Return(reasonsUnder(env, argVehicle[1], argPreferences[1]))

\* the data-model domain of the scoring inputs: both importances answered
\* and within 1..10, techScore and ecoScore within 0..100, range not negative
InDataModelDomain(vehicle, preferences) ==
    /\ preferences.rangeImportance # None
    /\ preferences.rangeImportance[1] \in 1..10
    /\ preferences.techImportance # None
    /\ preferences.techImportance[1] \in 1..10
    /\ vehicle.techScore \in 0..100
    /\ vehicle.ecoScore \in 0..100
    /\ vehicle.specifications.range.epa >= 0

\* C22: with the default weights 30, 25, 20, 15, 10 and inputs within the
\* data-model domain, the score calculateMatchScore returns is an integer
\* from 0 to 100.
C22_ScoreWithinHundred ==
    (QuizScored /\ InDataModelDomain(argVehicle[1], argPreferences[1])) =>
        /\ retScore.kind = "return"
        /\ retScore.value \in 0..100

\* a call within the domain that earns every sub-score in full
C22_Witness ==
    /\ QuizScored
    /\ InDataModelDomain(argVehicle[1], argPreferences[1])
    /\ increments.budget = budgetWeight * Unit
    /\ increments.type = typeWeight * Unit
    /\ increments.range = rangeWeight * Unit
    /\ increments.tech = techWeight * Unit
    /\ increments.eco = ecoWeight * Unit
    /\ retScore = Return(100)

\* budget, vehicleType, rangeImportance and techImportance all given
AllAnswered(preferences) ==
    /\ preferences.budget # None
    /\ preferences.vehicleType # None
    /\ preferences.rangeImportance # None
    /\ preferences.techImportance # None

\* C23: the two backend scorers agree: for preferences with budget,
\* vehicleType, rangeImportance and techImportance all given, the Vehicle
\* model's calculateMatchScore returns the score the quiz route's
\* calculateMatchScore returns for the same vehicle and preferences.
C23_ScorersAgree ==
    (/\ pc = "vehicleScored"
     /\ vehicleFeatures.enableMatchScoring
     /\ argPreferences # None
     /\ AllAnswered(argPreferences[1])) =>
        retMatchScore = calculateMatchScore(argVehicle, argPreferences)

\* where both add the same credit for the budget and the body type, that is
\* the price is not above the budget and the body type is the wanted one or
\* not a similar one, and the effective price is not negative, they agree
C23_ScorersAgreeOnCommonBranches ==
    (/\ pc = "vehicleScored"
     /\ vehicleFeatures.enableMatchScoring
     /\ argPreferences # None
     /\ AllAnswered(argPreferences[1])
     /\ effectivePrice(argVehicle[1]) >= 0
     /\ effectivePrice(argVehicle[1]) <= argPreferences[1].budget[1].max
     /\ typeScore(argVehicle[1], argPreferences[1]) \in {0, typeWeight * Unit}) =>
        retMatchScore = calculateMatchScore(argVehicle, argPreferences)

(***************************************************************************)
(* Claims about getVehicleRecommendations (specification SpecRank).        *)
(***************************************************************************)
\* a route has returned a list of recommendations
Ranked == rpc = "done" /\ outcome = "ok"
QuizRanked == Ranked /\ route = "quiz"

\* the scored candidates, in input order
Scored == [i \in DOMAIN tasks |-> tasks[i].entry]
TopN ==
    IF route = "forMe" THEN vehicleLimits.topRecommendations
    ELSE quizConfig.recommendations.topRecommendations
ScoreOf(entry) == IF route = "forMe" THEN entry.matchScore ELSE Num(entry.score)
Returned(k) == \E i \in DOMAIN recommendations : recommendations[i] = Scored[k]
InputIndex(entry) == CHOOSE k \in DOMAIN vehicles : vehicles[k]._id = entry.vehicle._id

\* <= and = of JavaScript numbers: false as soon as one side is NaN
NumLeq(x, y) == ~x.nan /\ ~y.nan /\ x.value <= y.value
NumEq(x, y) == ~x.nan /\ ~y.nan /\ x.value = y.value

TopNDescending ==
    /\ Len(recommendations) = IF TopN <= Len(vehicles) THEN TopN ELSE Len(vehicles)
    /\ \A i \in DOMAIN recommendations :
          \E k \in DOMAIN tasks : recommendations[i] = Scored[k]
    /\ \A i, j \in DOMAIN recommendations :
          i < j => /\ NumLeq(ScoreOf(recommendations[j]), ScoreOf(recommendations[i]))
                   /\ recommendations[i].vehicle._id # recommendations[j].vehicle._id
    /\ \A k \in DOMAIN tasks :
          ~Returned(k) =>
             \A i \in DOMAIN recommendations :
                 NumLeq(ScoreOf(Scored[k]), ScoreOf(recommendations[i]))

\* C5: rank returns exactly min(topN, number of candidates) entries, each a
\* scored candidate, in non-increasing order of score, and every candidate
\* left out scores no more than every candidate returned.
C5_TopNDescending == Ranked => TopNDescending

\* C5, where it holds: the list of getVehicleRecommendations, and the list of
\* the for-me route when no matchScore is NaN
C5_TopNDescendingOfNumbers ==
    (Ranked /\ \A k \in DOMAIN tasks : ~ScoreOf(Scored[k]).nan) => TopNDescending

\* C6: candidates with equal scores keep their relative input order, so for
\* scores [70, 85, 85] and topN = 2 the result is the second then the third
\* candidate.
C6_StableTies ==
    Ranked =>
        /\ \A i, j \in DOMAIN recommendations :
              (i < j /\ NumEq(ScoreOf(recommendations[i]), ScoreOf(recommendations[j])))
                 => InputIndex(recommendations[i]) < InputIndex(recommendations[j])
        /\ (Len(tasks) = 3 /\ TopN = 2
              /\ <<ScoreOf(Scored[1]), ScoreOf(Scored[2]), ScoreOf(Scored[3])>>
                   = <<Num(70), Num(85), Num(85)>>)
             => recommendations = <<Scored[2], Scored[3]>>

\* the scenario, the scores being those of calculateMatchScore
C6_Witness ==
    /\ QuizRanked
    /\ ~quizConfig.features.enableExternalScoringAPI
    /\ ~quizConfig.features.enableMLRecommendations
    /\ Len(tasks) = 3
    /\ TopN = 2
    /\ <<Scored[1].score, Scored[2].score, Scored[3].score>> = <<70, 85, 85>>
    /\ recommendations = <<Scored[2], Scored[3]>>

\* C7: whatever the order in which the per-candidate scoring steps complete,
\* the ranked output is the one obtained by scoring the candidates one after
\* another in input order.
C7_AnyCompletionOrder ==
    QuizRanked => recommendations = slice(sortByScore(Scored), TopN)

\* the callbacks completed out of input order and two candidates tie
C7_Witness ==
    /\ QuizRanked
    /\ quizConfig.features.enableExternalScoringAPI
    /\ \E a, b \in DOMAIN settled : a < b /\ settled[a] > settled[b]
    /\ \E i, j \in DOMAIN tasks : i # j /\ Scored[i].score = Scored[j].score

\* C8: score is deterministic: two calls on the same vehicle, preferences and
\* configuration attach the same score and the same reasons to the vehicle.
C8_SameArgumentsSameResult ==
    (previous # None /\ route = "quiz") =>
        \A k \in DOMAIN tasks :
            (tasks[k].state = "fulfilled" /\ previous[1][Scored[k].vehicle._id] # None)
               => /\ Scored[k].score = previous[1][Scored[k].vehicle._id][1].score
                  /\ Scored[k].matchReasons
                        = previous[1][Scored[k].vehicle._id][1].matchReasons

\* C8, where it holds: with ML recommendations and external scoring both off
\* (the defaults) the score and reasons attached to a vehicle are those of
\* calculateMatchScore and generateMatchReasons, and a second call repeats them.
C8_DeterministicWithoutExternalServices ==
    (route = "quiz" /\ ~quizConfig.features.enableExternalScoringAPI
       /\ ~quizConfig.features.enableMLRecommendations) =>
        /\ C8_SameArgumentsSameResult
        /\ \A k \in DOMAIN tasks :
              /\ Scored[k].score
                    = calculateMatchScore(Some(Scored[k].vehicle), reqPreferences).value
              /\ Scored[k].matchReasons
                    = generateMatchReasons(Some(Scored[k].vehicle), reqPreferences).value

\* every reason is one of the seven labels and none appears twice
ClosedReasons(reasons) ==
    /\ \A i \in DOMAIN reasons : \E l \in DOMAIN Labels : reasons[i] = Labels[l]
    /\ \A i, j \in DOMAIN reasons : i # j => reasons[i] # reasons[j]

\* C12: every reason attached to a scored vehicle is one of the seven fixed
\* labels and no label appears twice; none comes from a configurable
\* expression or an external source.
C12_ClosedReasonLabels ==
    \A k \in DOMAIN tasks : ClosedReasons(Scored[k].matchReasons)

\* C12, where it holds: ADDITIONAL_MATCH_REASONS unset and external scoring
\* off (the defaults)
C12_ClosedReasonLabelsByDefault ==
    (processEnv.ADDITIONAL_MATCH_REASONS = <<>>
       /\ ~quizConfig.features.enableExternalScoringAPI) => C12_ClosedReasonLabels

(***************************************************************************)
(* Claims about the email service (specification SpecEmail).               *)
(***************************************************************************)
NoCallInFlight == \A c \in Calls : calls[c].pc \in {"idle", "returned", "thrown"}

PrimaryProviderKept ==
    /\ NoCallInFlight => emailConfig.providers.primary = primaryAtStart
    /\ \A c \in Calls :
         calls[c].primaryTransporter # None =>
             calls[c].primaryTransporter[1] = primaryAtStart

\* C24: once every sendWithFallback call in flight has returned or thrown,
\* emailConfig.providers.primary has the value it had before the first call,
\* whatever the interleaving of overlapping calls; and no call builds its
\* primary transporter from the fallback provider.
C24_PrimaryProviderRestored == PrimaryProviderKept

\* while at most one call has been started, the provider is restored and the
\* primary transporter comes from the primary provider
C24_RestoredBySingleCall ==
    Cardinality({ c \in Calls : calls[c].pc # "idle" }) <= 1 => PrimaryProviderKept

(***************************************************************************)
(* Claims about the favourites (specification SpecFavorites).              *)
(***************************************************************************)
NoRequestInFlight == \A r \in Requests : ~InFlight(r)

FavoritesCounted ==
    /\ \A id \in FavoriteVehicleIds : dbFavorites[id] >= 0
    /\ NoRequestInFlight =>
         \A id \in FavoriteVehicleIds : dbFavorites[id] = initialFavorites + Holders(id)

\* C25: a vehicle's metadata.favorites is never negative and, once the add
\* and remove requests made have completed, overlapping ones of different
\* users included, equals its initial value plus the number of users who
\* hold the vehicle in favoriteVehicles.
C25_FavoritesCounter == FavoritesCounted

\* it is so as long as no request starts while another is in flight
C25_FavoritesCounterWithoutOverlap == ~overlapped => FavoritesCounted

NoDuplicates(array) ==
    \A i \in DOMAIN array, j \in DOMAIN array : array[i] = array[j] => i = j

FavoritesHeldOnce ==
    NoRequestInFlight =>
        \A u \in UserIds :
            /\ NoDuplicates(dbUsers[u].favoriteVehicles)
            /\ dbUsers[u].stats.favoritesCount = Len(dbUsers[u].favoriteVehicles)

\* C26: after any add and remove requests of a user, two overlapping adds of
\* one vehicle included, the user's favoriteVehicles holds each vehicle at
\* most once and stats.favoritesCount is the length of favoriteVehicles.
C26_FavoritesOnce == FavoritesHeldOnce

\* it is so as long as no request starts while another is in flight
C26_FavoritesOnceWithoutOverlap == ~overlapped => FavoritesHeldOnce

(***************************************************************************)
(* Claims about POST /quiz/submit (specification SpecRank).                *)
(***************************************************************************)
\* C27: the quizResult.score POST /quiz/submit builds and stores is a finite
\* integer for every list getVehicleRecommendations returns, the empty list
\* of no match or of a caught error included.
C27_StoredScoreFinite ==
    quizResult # None => ~quizResult[1].score.nan

\* for a list that is not empty the score is a number within the least and
\* the greatest score of the list
C27_ScoreOfNonEmptyList ==
    (quizResult # None /\ quizResult[1].recommendations # <<>>) =>
        /\ ~quizResult[1].score.nan
        /\ \E i \in DOMAIN recommendations :
             recommendations[i].score <= quizResult[1].score.value
        /\ \E i \in DOMAIN recommendations :
             recommendations[i].score >= quizResult[1].score.value

(***************************************************************************)
(* Claims about OTP verification (specification SpecOtp).                  *)
(***************************************************************************)
\* verifyOTP returns true only for an OTP that is set, not expired and equal
\* to the candidate, and a call that returns false leaves the document as
\* it was
VerifiedOnlyWhenValid ==
    lastVerify # None =>
        /\ lastVerify[1].result =>
              /\ lastVerify[1].before.otp = Some(lastVerify[1].candidateOTP)
              /\ lastVerify[1].before.otpExpires # None
              /\ lastVerify[1].at <= lastVerify[1].before.otpExpires[1]
        /\ ~lastVerify[1].result => lastVerify[1].after = lastVerify[1].before

\* once verifyOTP has returned true, it returns false until generateOTP is
\* called again
VerifiedAtMostOnce ==
    (lastVerify # None /\ lastVerify[1].afterVerified) => ~lastVerify[1].result

\* C28: an OTP is verified successfully at most once: verifyOTP returns true
\* only for an OTP that is set, not expired and equal to the candidate; after
\* it has returned true every later verifyOTP of the user returns false until
\* generateOTP is called again; a verifyOTP that returns false changes no
\* field of the user.
C28_OtpVerifiedAtMostOnce == VerifiedOnlyWhenValid /\ VerifiedAtMostOnce

\* the first and the last part hold for every call made
C28_VerifiedOnlyWhenValid == VerifiedOnlyWhenValid

(***************************************************************************)
(* Claims about the view history (specification SpecViewHistory).          *)
(***************************************************************************)
\* C29: after any sequence of addToViewHistory calls, viewHistory holds each
\* vehicle at most once, has at most limits.viewHistory entries, has the
\* vehicle added last in front, and stats.viewedCount is its length.
C29_ViewHistory ==
    /\ \A i \in DOMAIN viewer.viewHistory, j \in DOMAIN viewer.viewHistory :
         viewer.viewHistory[i].vehicleId = viewer.viewHistory[j].vehicleId => i = j
    /\ Len(viewer.viewHistory) <= userLimits.viewHistory
    /\ lastViewed # None =>
         /\ viewer.viewHistory # <<>>
         /\ viewer.viewHistory[1].vehicleId = lastViewed[1]
    /\ viewer.stats.viewedCount = Len(viewer.viewHistory)

\* a full history whose last call moved a vehicle that was in it to the front
C29_Witness ==
    /\ lastViewed # None
    /\ Len(viewer.viewHistory) = userLimits.viewHistory
    /\ userLimits.viewHistory < Cardinality(ViewedVehicleIds)
    /\ viewer.viewHistory[1].vehicleId = "V1"
    /\ viewer.viewHistory[Len(viewer.viewHistory)].vehicleId = "V5"

(***************************************************************************)
(* Claims about the quiz page (specification SpecQuizPage).                *)
(***************************************************************************)
\* C30: with at least one question loaded, currentQuestion stays within
\* 0 .. questions.length - 1 whatever the sequence of nextQuestion,
\* previousQuestion, arrow-key and Enter events; nextQuestion on the last
\* question calls finishQuiz and leaves the index as it is.
C30_CurrentQuestionInRange ==
    Len(quizData.questions) >= 1 =>
        /\ currentQuestion \in 0..(Len(quizData.questions) - 1)
        /\ (/\ lastEvent # None
            /\ lastEvent[1].called = "nextQuestion"
            /\ lastEvent[1].before = Len(quizData.questions) - 1) =>
               /\ lastEvent[1].finishQuiz
               /\ lastEvent[1].after = lastEvent[1].before

\* nextQuestion called on the last of several questions
C30_Witness ==
    /\ Len(quizData.questions) >= 2
    /\ lastEvent # None
    /\ lastEvent[1].called = "nextQuestion"
    /\ lastEvent[1].before = Len(quizData.questions) - 1
    /\ lastEvent[1].finishQuiz
    /\ currentQuestion = Len(quizData.questions) - 1

====
